---- MODULE Spec2Model ----
(***************************************************************************)
(* Karen: guardrail policy engine (Guardrails) and transaction lifecycle   *)
(* engine (TransactionEngine), src/src/core/transaction/guardrails.ts,     *)
(* with the audit logger they write to, src/src/core/audit-logger.ts.      *)
(*                                                                         *)
(* Amounts are whole SOL (exact in the code's floating point).  Time is    *)
(* Date.now() in milliseconds counted from process start: the code only    *)
(* ever subtracts two instants.                                            *)
(***************************************************************************)
EXTENDS Integers, Sequences, FiniteSets, TLC

VARIABLES
    now,        \* Date.now()
    ticks,      \* how many times the clock has advanced
    config,     \* Guardrails.config
    windows,    \* Guardrails.windows : walletId -> TransactionWindow
    att,        \* the engine's attempts: one entry per entry-point call
    txLog,      \* data/logs/transactions.jsonl, one snapshot per line
    events,     \* data/logs/events.jsonl, one event per line
    calls,      \* how many direct recordTransaction calls were made
    ret,        \* the last direct call of a Guardrails method and what it returned,
                \* or the last Orchestrator call that threw
    configs,    \* Orchestrator.configs : agentId -> AgentConfig
    agents,     \* Orchestrator.agents : agentId -> AgentRuntime, with its timers and cycles
    memory,     \* MemoryStore: data/memory/<agentId>.json, agentId -> entries
    added,      \* per agent, the entries of the addMemory calls that returned
    listeners,  \* AuditLogger.listeners: the array, and whose unsubscribe functions exist
    delivered   \* the calls of listeners, in order: which listener, with which event

vars == <<now, ticks, config, windows, att, txLog, events, calls, ret, configs, agents,
          memory, added, listeners, delivered>>

-----------------------------------------------------------------------------
(* Bounds of the model *)

MaxAttempts == 2
MaxTicks == 2
MaxEntryCalls == 1
MaxRecords == 2

(* Constants of the program *)

MinuteMs == 60000
TrimMs == 300000
DayMs == 86400000

SystemProgram == "11111111111111111111111111111111"
TokenProgram == "TokenkegQfeZyiNwAJbNbGKPFXCWuBvf9Ss623VQ5DA"
ATokenProgram == "ATokenGPvbdGVxr1b2hvZbsiqW5xWH25efTNsLJA8knL"
JupiterProgram == "JUP6LkbZbjS1jKKwapdHNy74zcZ3tLUZoi5QNyVTaV4"
StakeProgram == "Stake11111111111111111111111111111111111111"
MetadataProgram == "metaqbxxUerdq28cj1RbAWkYQm3ybzjb6a8bt518x1s"

DEFAULT_GUARDRAIL_CONFIG ==
    [ maxSolPerTransaction |-> 2,
      maxTransactionsPerMinute |-> 5,
      dailySpendingLimitSol |-> 10,
      allowedPrograms |-> << SystemProgram, TokenProgram, ATokenProgram,
                             JupiterProgram, StakeProgram, MetadataProgram >>,
      blockedAddresses |-> << >> ]

(* { ...base, ...updates } *)
MergeConfig(base, updates) ==
    [ k \in DOMAIN base |-> IF k \in DOMAIN updates THEN updates[k] ELSE base[k] ]

-----------------------------------------------------------------------------
(* Inputs *)

Wallets == { "w1", "w2" }
Amounts == { 1, 2, 3 }
NoDestination == ""
GoodAddress == "7xKgood"
BadAddress == "9zBad"
UnknownProgram == "Evil1111111111111111111111111111111111111111"
OtherProgram == "Other111111111111111111111111111111111111111"
Destinations == { NoDestination, GoodAddress, BadAddress }
ProgramLists == { << >>, << JupiterProgram >>,
                  << UnknownProgram, SystemProgram, OtherProgram >> }
RecordAmounts == { 1, 2 }
TimeSteps == { 1, MinuteMs - 1, DayMs }

(* The overrides a Guardrails instance is constructed with. *)
ConfigOverrides ==
    { [ maxTransactionsPerMinute |-> 1, dailySpendingLimitSol |-> 3 ],
      [ maxTransactionsPerMinute |-> 2, dailySpendingLimitSol |-> 4,
        allowedPrograms |-> << >>, blockedAddresses |-> << BadAddress >> ],
      [ maxSolPerTransaction |-> 3, maxTransactionsPerMinute |-> 2,
        dailySpendingLimitSol |-> 2, allowedPrograms |-> << SystemProgram >>,
        blockedAddresses |-> << BadAddress >> ] }

(* What the engine runs are driven with. *)
EngineAddresses == { GoodAddress, BadAddress }
EngineAmounts == { 2, 3 }
EnginePrograms == { << >>, << SystemProgram, UnknownProgram >> }
EngineTimeSteps == { 1, MinuteMs, DayMs + 1 }
EngineConfigs ==
    { MergeConfig(DEFAULT_GUARDRAIL_CONFIG,
                  [ maxTransactionsPerMinute |-> 1, dailySpendingLimitSol |-> 3,
                    blockedAddresses |-> << BadAddress >> ]),
      MergeConfig(DEFAULT_GUARDRAIL_CONFIG,
                  [ maxTransactionsPerMinute |-> 2, dailySpendingLimitSol |-> 4,
                    allowedPrograms |-> << >>, blockedAddresses |-> << BadAddress >> ]),
      MergeConfig(DEFAULT_GUARDRAIL_CONFIG,
                  [ maxTransactionsPerMinute |-> 2, dailySpendingLimitSol |-> 4,
                    allowedPrograms |-> << TokenProgram, JupiterProgram >> ]) }

Configs == { DEFAULT_GUARDRAIL_CONFIG }
             \cup { MergeConfig(DEFAULT_GUARDRAIL_CONFIG, o) : o \in ConfigOverrides }

-----------------------------------------------------------------------------
(* Guardrails *)

RuleOrder == << "max_per_tx", "rate_limit", "daily_limit", "program_allowlist",
                "blocked_address" >>

Includes(list, x) == \E i \in 1..Len(list) : list[i] = x

NoReason == [ text |-> "", nums |-> << >>, names |-> << >> ]

NewWindow(t) == [ timestamps |-> << >>, dailySpend |-> 0, lastDayReset |-> t ]

(* getWindow: the map after the lookup, which creates the entry lazily. *)
GetWindow(wins, walletId, t) ==
    IF walletId \in DOMAIN wins THEN wins ELSE wins @@ (walletId :> NewWindow(t))

(* Variant: a reset at exactly 24h (>= for >). *)
ResetDailyAtBoundary(window, t) ==
    IF t - window.lastDayReset >= DayMs
    THEN [ window EXCEPT !.dailySpend = 0, !.lastDayReset = t ]
    ELSE window

ResetDailyIfNeeded(window, t) ==
    IF t - window.lastDayReset > DayMs
    THEN [ window EXCEPT !.dailySpend = 0, !.lastDayReset = t ]
    ELSE window

(* Variant: a timestamp exactly 60s old still counts (<= for <). *)
IsRecentInclusive(ts, t) == t - ts <= MinuteMs

IsRecent(ts, t) == t - ts < MinuteMs

RecentTxCount(window, t) ==
    Len(SelectSeq(window.timestamps, LAMBDA ts : IsRecent(ts, t)))

Disallowed(cfg, programIds) ==
    SelectSeq(programIds, LAMBDA p : ~Includes(cfg.allowedPrograms, p))

(* Variant: an amount equal to the cap is denied (>= for >). *)
ExceedsPerTxAtLimit(cfg, amountSol) == amountSol >= cfg.maxSolPerTransaction

(* Variant: the cap read from the daily limit. *)
ExceedsPerTxWrongLimit(cfg, amountSol) == amountSol > cfg.dailySpendingLimitSol

ExceedsPerTx(cfg, amountSol) == amountSol > cfg.maxSolPerTransaction

(* Variant: one transaction too many per minute (> for >=). *)
RateLimitedOffByOne(cfg, recentTxCount) ==
    recentTxCount > cfg.maxTransactionsPerMinute

RateLimited(cfg, recentTxCount) == recentTxCount >= cfg.maxTransactionsPerMinute

(* Variant: reaching the daily limit exactly is denied (>= for >). *)
ExceedsDailyAtLimit(cfg, window, amountSol) ==
    window.dailySpend + amountSol >= cfg.dailySpendingLimitSol

ExceedsDaily(cfg, window, amountSol) ==
    window.dailySpend + amountSol > cfg.dailySpendingLimitSol

(* Variant: the allowlist rule does not look at programIds being empty. *)
AllowlistAlwaysApplies(cfg, programIds) == Len(cfg.allowedPrograms) > 0

AllowlistApplies(cfg, programIds) ==
    Len(cfg.allowedPrograms) > 0 /\ Len(programIds) > 0

(* Variant: the destination looked up in allowedPrograms. *)
DestinationBlockedWrongList(cfg, destinationAddress) ==
    destinationAddress # NoDestination /\ Includes(cfg.allowedPrograms, destinationAddress)

DestinationBlocked(cfg, destinationAddress) ==
    destinationAddress # NoDestination /\ Includes(cfg.blockedAddresses, destinationAddress)

(* validate: what it returns, and the window map it leaves behind. *)
Validate(cfg, wins, t, walletId, amountSol, programIds, destinationAddress) ==
    LET wins1 == GetWindow(wins, walletId, t)
        window == wins1[walletId]
        recent == RecentTxCount(window, t)
        window2 == ResetDailyIfNeeded(window, t)
        wins2 == [ wins1 EXCEPT ![walletId] = window2 ]
        a1 == << "max_per_tx" >>
        a2 == Append(a1, "rate_limit")
        a3 == Append(a2, "daily_limit")
        a4 == IF AllowlistApplies(cfg, programIds)
              THEN Append(a3, "program_allowlist") ELSE a3
        disallowed == Disallowed(cfg, programIds)
    IN  IF ExceedsPerTx(cfg, amountSol)
        THEN [ allowed |-> FALSE,
               reason |-> [ text |-> "exceeds per-transaction limit",
                            nums |-> << amountSol, cfg.maxSolPerTransaction >>,
                            names |-> << >> ],
               guardrails |-> a1, windows |-> wins ]
        ELSE IF RateLimited(cfg, recent)
        THEN [ allowed |-> FALSE,
               reason |-> [ text |-> "Rate limit exceeded",
                            nums |-> << recent, cfg.maxTransactionsPerMinute >>,
                            names |-> << >> ],
               guardrails |-> a2, windows |-> wins1 ]
        ELSE IF ExceedsDaily(cfg, window2, amountSol)
        THEN [ allowed |-> FALSE,
               reason |-> [ text |-> "Daily spending limit exceeded",
                            nums |-> << window2.dailySpend, amountSol,
                                        cfg.dailySpendingLimitSol >>,
                            names |-> << >> ],
               guardrails |-> a3, windows |-> wins2 ]
        ELSE IF AllowlistApplies(cfg, programIds) /\ Len(disallowed) > 0
        THEN [ allowed |-> FALSE,
               reason |-> [ text |-> "Programs not in allowlist",
                            nums |-> << >>, names |-> disallowed ],
               guardrails |-> a4, windows |-> wins2 ]
        ELSE IF DestinationBlocked(cfg, destinationAddress)
        THEN [ allowed |-> FALSE,
               reason |-> [ text |-> "Destination address is blocked",
                            nums |-> << >>, names |-> << destinationAddress >> ],
               guardrails |-> Append(a4, "blocked_address"), windows |-> wins2 ]
        ELSE [ allowed |-> TRUE, reason |-> NoReason, guardrails |-> a4,
               windows |-> wins2 ]

(* Variant: recordTransaction without the 5 minute trim. *)
RecordTransactionNoTrim(wins, t, walletId, amountSol) ==
    LET wins1 == GetWindow(wins, walletId, t)
        window == wins1[walletId]
    IN  [ wins1 EXCEPT ![walletId] =
            [ window EXCEPT !.timestamps = Append(window.timestamps, t),
                            !.dailySpend = window.dailySpend + amountSol ] ]

(* recordTransaction: the window map it leaves behind. *)
RecordTransaction(wins, t, walletId, amountSol) ==
    LET wins1 == GetWindow(wins, walletId, t)
        window == wins1[walletId]
        pushed == Append(window.timestamps, t)
        cutoff == t - TrimMs
    IN  [ wins1 EXCEPT ![walletId] =
            [ window EXCEPT !.timestamps = SelectSeq(pushed, LAMBDA ts : ts > cutoff),
                            !.dailySpend = window.dailySpend + amountSol ] ]

(* getSpendingInfo: what it returns, and the window map it leaves behind. *)
GetSpendingInfo(cfg, wins, t, walletId) ==
    LET wins1 == GetWindow(wins, walletId, t)
        window == ResetDailyIfNeeded(wins1[walletId], t)
        left == cfg.dailySpendingLimitSol - window.dailySpend
    IN  [ recentTxCount |-> RecentTxCount(window, t),
          dailySpend |-> window.dailySpend,
          dailyRemaining |-> IF left > 0 THEN left ELSE 0,
          perTxLimit |-> cfg.maxSolPerTransaction,
          windows |-> [ wins1 EXCEPT ![walletId] = window ] ]

-----------------------------------------------------------------------------
(* AuditLogger and the records the engine writes *)

NoSignature == ""
LedgerSignature == "5sig"

ErrorMessage(text) == [ text |-> text, nums |-> << >>, names |-> << >> ]

(* Which of the appends of one handler step throw: t1/t2 are logTransaction and
   logEvent inside the try block, c1/c2 the same two calls inside the catch. *)
NoFaults == [ t1 |-> FALSE, t2 |-> FALSE, c1 |-> FALSE, c2 |-> FALSE ]
FaultPatterns == [ t1 : BOOLEAN, t2 : BOOLEAN, c1 : BOOLEAN, c2 : BOOLEAN ]

(* createRecord *)
CreateRecord(walletId, type, details) ==
    [ walletId |-> walletId, type |-> type, status |-> "pending",
      signature |-> NoSignature, error |-> NoReason, details |-> details,
      guardrailsApplied |-> << >> ]

(* JSON.stringify(record): the line logTransaction appends *)
LogLine(id, record) == [ id |-> id ] @@ record

(* Variant: a denial announced as a failure. *)
EventTypeNoBlocked(status) ==
    IF status = "confirmed" THEN "transaction:confirmed" ELSE "transaction:failed"

EventType(status) ==
    CASE status = "confirmed" -> "transaction:confirmed"
      [] status = "blocked" -> "transaction:blocked"
      [] OTHER -> "transaction:failed"

(* Variant: a catch block that rethrows instead of returning the record. *)
CatchBlockRethrows(id, record, message, log, evs, f) ==
    [ record |-> [ record EXCEPT !.status = "failed", !.error = ErrorMessage(message) ],
      txLog |-> log, events |-> evs, pc |-> "threw", faulted |-> FALSE ]

(* The catch block of an entry point: mark the record failed, append it, emit
   the event, return it.  An append that throws here leaves the entry point
   by exception. *)
CatchBlock(id, record, message, log, evs, f) ==
    LET failed == [ record EXCEPT !.status = "failed", !.error = ErrorMessage(message) ]
        log1 == Append(log, LogLine(id, failed))
        ev1 == Append(evs, [ type |-> "transaction:failed", id |-> id ])
    IN  IF f.c1 THEN [ record |-> failed, txLog |-> log, events |-> evs, pc |-> "threw",
                       faulted |-> TRUE ]
        ELSE IF f.c2 THEN [ record |-> failed, txLog |-> log1, events |-> evs,
                            pc |-> "threw", faulted |-> TRUE ]
        ELSE [ record |-> failed, txLog |-> log1, events |-> ev1, pc |-> "done",
               faulted |-> FALSE ]

(* The end of the try block once the record has its status: logTransaction,
   logEvent, return.  Both calls are inside the try. *)
LogAndReturn(id, record, log, evs, f) ==
    LET log1 == Append(log, LogLine(id, record))
        ev1 == Append(evs, [ type |-> EventType(record.status), id |-> id ])
    IN  IF f.t1
        THEN [ CatchBlock(id, record, "ENOSPC: transactions.jsonl", log, evs, f)
                 EXCEPT !.faulted = TRUE ]
        ELSE IF f.t2
        THEN [ CatchBlock(id, record, "ENOSPC: events.jsonl", log1, evs, f)
                 EXCEPT !.faulted = TRUE ]
        ELSE [ record |-> record, txLog |-> log1, events |-> ev1, pc |-> "done",
               faulted |-> FALSE ]

-----------------------------------------------------------------------------
(* TransactionEngine *)

Attempts == 1..MaxAttempts

NotCalled ==
    [ pc |-> "idle", kind |-> "none", amountSol |-> 0, programIds |-> << >>,
      destination |-> NoDestination,
      record |-> CreateRecord("", "none", << >>),
      keyResolved |-> FALSE, ledgerCalls |-> 0, recorded |-> 0,
      recordedAt |-> -1, appendFailed |-> FALSE ]

InFlight(a) == att[a].pc \in { "getKeypair", "send", "airdrop" }
Returned(a) == att[a].pc = "done"
Threw(a) == att[a].pc = "threw"
Ended(a) == Returned(a) \/ Threw(a)

(* Attempts are numbered in the order the entry points are called. *)
NextToCall(a) ==
    /\ att[a].pc = "idle"
    /\ a > 1 => att[a - 1].pc # "idle"

(* createRecord and guardrails.validate, up to the first await of the entry
   point: a denial is logged and returned at once. *)
Enter(a, kind, type, walletId, details, amountSol, programIds, destination, f) ==
    LET v == Validate(config, windows, now, walletId, amountSol, programIds, destination)
        rec == [ CreateRecord(walletId, type, details) EXCEPT
                   !.guardrailsApplied = v.guardrails ]
        blocked == [ rec EXCEPT !.status = "blocked", !.error = v.reason ]
        out == LogAndReturn(a, blocked, txLog, events, f)
        base == [ NotCalled EXCEPT !.kind = kind, !.amountSol = amountSol,
                                   !.programIds = programIds,
                                   !.destination = destination ]
    IN  /\ NextToCall(a)
        /\ windows' = v.windows
        /\ IF v.allowed
           THEN /\ att' = [ att EXCEPT ![a] = [ base EXCEPT !.pc = "getKeypair",
                                                            !.record = rec ] ]
                /\ UNCHANGED << txLog, events >>
           ELSE /\ att' = [ att EXCEPT ![a] = [ base EXCEPT !.pc = out.pc,
                                                            !.record = out.record,
                                                            !.appendFailed = out.faulted ] ]
                /\ txLog' = out.txLog
                /\ events' = out.events
        /\ UNCHANGED << now, ticks, config, calls, ret, configs, agents,
                        memory, added, listeners, delivered >>

TransferSol(a, walletId, toAddress, amountSol, f) ==
    Enter(a, "transferSol", "transfer", walletId, << toAddress, amountSol, "SOL" >>,
          amountSol, << SystemProgram >>, toAddress, f)

(* Variant: the token amount is validated and recorded as if it were SOL *)
TransferTokenAsSol(a, walletId, toAddress, amount, f) ==
    Enter(a, "transferToken", "token_transfer", walletId,
          << toAddress, amount, "mint" >>,
          amount, << TokenProgram, ATokenProgram >>, toAddress, f)

TransferToken(a, walletId, toAddress, amount, f) ==
    Enter(a, "transferToken", "token_transfer", walletId,
          << toAddress, amount, "mint" >>,
          0, << TokenProgram, ATokenProgram >>, toAddress, f)

SignAndSend(a, walletId, amountSol, programIds, f) ==
    Enter(a, "signAndSend", "swap", walletId, << >>,
          amountSol, programIds, NoDestination, f)

(* walletManager.getKeypair and the building of the transaction, up to the
   call of sendAndConfirmTransaction. *)
ResolveOutcomes == { "ok", "keyError", "buildError" }

Resolve(a, outcome, f) ==
    LET me == att[a]
        out == CatchBlock(a, me.record,
                          IF outcome = "keyError" THEN "Wallet not found"
                          ELSE "Invalid public key input", txLog, events, f)
    IN  /\ me.pc = "getKeypair"
        /\ IF outcome = "ok"
           THEN /\ att' = [ att EXCEPT ![a].pc = "send", ![a].keyResolved = TRUE,
                                       ![a].ledgerCalls = me.ledgerCalls + 1 ]
                /\ UNCHANGED << txLog, events >>
           ELSE /\ att' = [ att EXCEPT ![a].pc = out.pc, ![a].record = out.record,
                                       ![a].keyResolved = (outcome = "buildError"),
                                       ![a].appendFailed = out.faulted ]
                /\ txLog' = out.txLog
                /\ events' = out.events
        /\ UNCHANGED << now, ticks, config, windows, calls, ret, configs, agents,
                        memory, added, listeners, delivered >>

(* sendAndConfirmTransaction settles: the signature, recordTransaction and the
   logging on success, the catch block on rejection. *)
Send(a, confirmed, f) ==
    LET me == att[a]
        ok == [ me.record EXCEPT !.status = "confirmed", !.signature = LedgerSignature ]
        out == IF confirmed
               THEN LogAndReturn(a, ok, txLog, events, f)
               ELSE CatchBlock(a, me.record, "Transaction simulation failed",
                               txLog, events, f)
    IN  /\ me.pc = "send"
        /\ windows' = IF confirmed
                      THEN RecordTransaction(windows, now, me.record.walletId, me.amountSol)
                      ELSE windows
        /\ att' = [ att EXCEPT ![a].pc = out.pc, ![a].record = out.record,
                               ![a].recorded = me.recorded + (IF confirmed THEN 1 ELSE 0),
                               ![a].recordedAt = IF confirmed THEN now ELSE me.recordedAt,
                               ![a].appendFailed = out.faulted ]
        /\ txLog' = out.txLog
        /\ events' = out.events
        /\ UNCHANGED << now, ticks, config, calls, ret, configs, agents,
                        memory, added, listeners, delivered >>

(* Variant: a faucet request that consults the guardrails like a transfer. *)
AirdropValidated(a, walletId, amountSol) ==
    Enter(a, "airdrop", "airdrop", walletId, << amountSol >>, amountSol, << >>,
          NoDestination, NoFaults)

(* airdrop: no guardrail call; the record waits on walletManager.requestAirdrop. *)
Airdrop(a, walletId, amountSol) ==
    /\ NextToCall(a)
    /\ att' = [ att EXCEPT ![a] =
                  [ NotCalled EXCEPT !.pc = "airdrop", !.kind = "airdrop",
                                     !.amountSol = amountSol,
                                     !.record = CreateRecord(walletId, "airdrop",
                                                             << amountSol >>) ] ]
    /\ UNCHANGED << now, ticks, config, windows, txLog, events, calls, ret, configs, agents,
                    memory, added, listeners, delivered >>

AirdropOutcomes == { "ok", "notFound", "rpcError" }

AirdropReturn(a, outcome, f) ==
    LET me == att[a]
        ok == [ me.record EXCEPT !.status = "confirmed", !.signature = LedgerSignature ]
        out == IF outcome = "ok"
               THEN LogAndReturn(a, ok, txLog, events, f)
               ELSE CatchBlock(a, me.record,
                               IF outcome = "notFound" THEN "Wallet not found"
                               ELSE "airdrop request failed", txLog, events, f)
    IN  /\ me.pc = "airdrop"
        /\ att' = [ att EXCEPT ![a].pc = out.pc, ![a].record = out.record,
                               ![a].ledgerCalls =
                                   me.ledgerCalls + (IF outcome = "notFound" THEN 0 ELSE 1),
                               ![a].appendFailed = out.faulted ]
        /\ txLog' = out.txLog
        /\ events' = out.events
        /\ UNCHANGED << now, ticks, config, windows, calls, ret, configs, agents,
                        memory, added, listeners, delivered >>

(* The clock advances between any two steps. *)
Tick(d) ==
    /\ ticks < MaxTicks
    /\ now' = now + d
    /\ ticks' = ticks + 1
    /\ UNCHANGED << config, windows, att, txLog, events, calls, ret, configs, agents,
                    memory, added, listeners, delivered >>

-----------------------------------------------------------------------------
(* Guardrails called directly: its public methods, one call per step *)

NoCall ==
    [ op |-> "none", walletId |-> "", amountSol |-> 0, programIds |-> << >>,
      destination |-> NoDestination, at |-> 0, allowed |-> TRUE, reason |-> NoReason,
      guardrails |-> << >>, before |-> << >> ]

CallValidate(walletId, amountSol, programIds, destination) ==
    LET v == Validate(config, windows, now, walletId, amountSol, programIds, destination)
    IN  /\ windows' = v.windows
        /\ ret' = [ op |-> "validate", walletId |-> walletId, amountSol |-> amountSol,
                    programIds |-> programIds, destination |-> destination,
                    at |-> now, allowed |-> v.allowed, reason |-> v.reason,
                    guardrails |-> v.guardrails, before |-> windows ]
        /\ UNCHANGED << now, ticks, config, att, txLog, events, calls, configs, agents,
                        memory, added, listeners, delivered >>

CallRecordTransaction(walletId, amountSol) ==
    /\ calls < MaxRecords
    /\ calls' = calls + 1
    /\ windows' = RecordTransaction(windows, now, walletId, amountSol)
    /\ ret' = [ NoCall EXCEPT !.op = "recordTransaction", !.walletId = walletId,
                              !.amountSol = amountSol, !.at = now, !.before = windows ]
    /\ UNCHANGED << now, ticks, config, att, txLog, events, configs, agents,
                    memory, added, listeners, delivered >>

-----------------------------------------------------------------------------
(* Specifications *)

(* AuditLogger.listeners as constructed: no listener, no unsubscribe
   function handed out yet, onEvent not called yet *)
NoListeners == [ array |-> << >>, unsubscribe |-> {}, pushed |-> 0 ]

Init ==
    /\ now = 0
    /\ ticks = 0
    /\ config \in EngineConfigs
    /\ windows = << >>
    /\ att = [ a \in Attempts |-> NotCalled ]
    /\ txLog = << >>
    /\ events = << >>
    /\ calls = 0
    /\ ret = NoCall
    /\ configs = << >>
    /\ agents = << >>
    /\ memory = << >>
    /\ added = << >>
    /\ listeners = NoListeners
    /\ delivered = << >>

(* Wallet ids are interchangeable: the first call is on the first wallet. *)
WalletsFor(a) == IF a = 1 THEN { "w1" } ELSE Wallets

(* Native transfers by concurrent callers; the audit files are writable. *)
Next ==
    \/ \E a \in Attempts, to \in EngineAddresses, amt \in EngineAmounts :
          \E w \in WalletsFor(a) : TransferSol(a, w, to, amt, NoFaults)
    \/ \E a \in Attempts : Resolve(a, "ok", NoFaults)
    \/ \E a \in Attempts, c \in BOOLEAN : Send(a, c, NoFaults)
    \/ \E d \in EngineTimeSteps : Tick(d)

Spec == Init /\ [][Next]_vars

(* The same callers, one attempt at a time on each account. *)
NoAttemptInFlightOn(walletId) ==
    \A b \in Attempts : InFlight(b) => att[b].record.walletId # walletId

NextSerial ==
    \/ \E a \in Attempts, to \in EngineAddresses, amt \in EngineAmounts :
          \E w \in WalletsFor(a) :
             NoAttemptInFlightOn(w) /\ TransferSol(a, w, to, amt, NoFaults)
    \/ \E a \in Attempts : Resolve(a, "ok", NoFaults)
    \/ \E a \in Attempts, c \in BOOLEAN : Send(a, c, NoFaults)
    \/ \E d \in EngineTimeSteps : Tick(d)

SpecSerial == Init /\ [][NextSerial]_vars

(* The public methods of one Guardrails instance, called directly. *)
InitGuardrails ==
    /\ now = 0
    /\ ticks = 0
    /\ config \in Configs
    /\ windows = << >>
    /\ att = [ a \in Attempts |-> NotCalled ]
    /\ txLog = << >>
    /\ events = << >>
    /\ calls = 0
    /\ ret = NoCall
    /\ configs = << >>
    /\ agents = << >>
    /\ memory = << >>
    /\ added = << >>
    /\ listeners = NoListeners
    /\ delivered = << >>

(* A history of recordTransaction calls as the clock advances, then one
   validate call, which is where the run is looked at. *)
Probed == ret.op = "validate"

(* the history before the validate call: one step short of every record
   and every tick the bounds allow *)
RoomInHistory == calls + ticks < MaxRecords + MaxTicks - 1

NextGuardrails ==
    \/ \E w \in Wallets, amt \in Amounts, p \in ProgramLists, to \in Destinations :
          ~Probed /\ CallValidate(w, amt, p, to)
    \/ \E w \in Wallets, amt \in RecordAmounts :
          /\ ~Probed
          /\ RoomInHistory
          /\ calls = 0 => w = "w1"
          /\ CallRecordTransaction(w, amt)
    \/ \E d \in TimeSteps : ~Probed /\ RoomInHistory /\ Tick(d)

SpecGuardrails == InitGuardrails /\ [][NextGuardrails]_vars

(* Every entry point, one call after the other, with audit appends that may
   throw. *)
EntryCalls == 1..MaxEntryCalls

NoneInFlight == \A b \in Attempts : ~InFlight(b)

NextEntry ==
    \/ \E a \in EntryCalls, to \in EngineAddresses, amt \in EngineAmounts,
          f \in FaultPatterns : \E w \in WalletsFor(a) :
             NoneInFlight /\ TransferSol(a, w, to, amt, f)
    \/ \E a \in EntryCalls, to \in EngineAddresses, f \in FaultPatterns :
          \E w \in WalletsFor(a) : NoneInFlight /\ TransferToken(a, w, to, 5, f)
    \/ \E a \in EntryCalls, amt \in EngineAmounts, p \in EnginePrograms,
          f \in FaultPatterns : \E w \in WalletsFor(a) :
             NoneInFlight /\ SignAndSend(a, w, amt, p, f)
    \/ \E a \in EntryCalls, amt \in { 1, 3 } : \E w \in WalletsFor(a) :
          NoneInFlight /\ Airdrop(a, w, amt)
    \/ \E a \in EntryCalls, o \in ResolveOutcomes, f \in FaultPatterns : Resolve(a, o, f)
    \/ \E a \in EntryCalls, c \in BOOLEAN, f \in FaultPatterns : Send(a, c, f)
    \/ \E a \in EntryCalls, o \in AirdropOutcomes, f \in FaultPatterns :
          AirdropReturn(a, o, f)

SpecEntry == Init /\ [][NextEntry]_vars

-----------------------------------------------------------------------------
(* Properties *)

Last(list) == list[Len(list)]
Range(list) == { list[i] : i \in 1..Len(list) }
IsPrefix(p, list) == Len(p) <= Len(list) /\ \A i \in 1..Len(p) : p[i] = list[i]
Terminal == { "confirmed", "failed", "blocked" }
FirstThree == << "max_per_tx", "rate_limit", "daily_limit" >>

Called(a) == att[a].pc # "idle"
ConfirmedOn(walletId) ==
    { a \in Attempts : att[a].record.walletId = walletId /\ att[a].recorded > 0 }
RecentlyConfirmed(walletId) ==
    { a \in ConfirmedOn(walletId) : now - att[a].recordedAt < MinuteMs }
BlockedBy(a, rule) ==
    /\ att[a].record.status = "blocked"
    /\ Last(att[a].record.guardrailsApplied) = rule

(* C1: whatever the interleaving of concurrent attempts on an account, its
   daily spend never exceeds dailySpendingLimitSol and no more than
   maxTransactionsPerMinute of its attempts are confirmed within 60s. *)
C1_LimitsHoldUnderConcurrency ==
    \A w \in DOMAIN windows :
       /\ windows[w].dailySpend <= config.dailySpendingLimitSol
       /\ Cardinality(RecentlyConfirmed(w)) <= config.maxTransactionsPerMinute

(* C2: with one attempt at a time on each account and a fixed config, every
   account's dailySpend is at most dailySpendingLimitSol and it has at most
   maxTransactionsPerMinute recorded timestamps younger than 60s. *)
C2_SerialLimits ==
    \A w \in DOMAIN windows :
       /\ windows[w].dailySpend <= config.dailySpendingLimitSol
       /\ RecentTxCount(windows[w], now) <= config.maxTransactionsPerMinute

C2_Witness ==
    \E w \in DOMAIN windows :
       /\ windows[w].dailySpend = config.dailySpendingLimitSol
       /\ RecentTxCount(windows[w], now) = config.maxTransactionsPerMinute
       /\ Cardinality(ConfirmedOn(w)) = 2

(* C3: an amount above maxSolPerTransaction is denied with the rule list
   <<max_per_tx>> alone, in every account state, and a transferSol of such an
   amount returns blocked without the key being resolved or the ledger called. *)
C3_CapEnforced ==
    /\ \A a \in Attempts :
          ( Called(a) /\ att[a].kind = "transferSol"
            /\ att[a].amountSol > config.maxSolPerTransaction )
          => /\ Returned(a)
             /\ att[a].record.status = "blocked"
             /\ att[a].record.guardrailsApplied = << "max_per_tx" >>
             /\ att[a].record.error.text = "exceeds per-transaction limit"
             /\ att[a].ledgerCalls = 0
             /\ ~att[a].keyResolved
    /\ \A w \in Wallets, amt \in Amounts :
          amt > config.maxSolPerTransaction
          => LET v == Validate(config, windows, now, w, amt, << SystemProgram >>,
                               GoodAddress)
             IN  ~v.allowed /\ v.guardrails = << "max_per_tx" >>

C3_Witness ==
    \E a \in Attempts :
       /\ att[a].kind = "transferSol" /\ att[a].amountSol = 3
       /\ Returned(a) /\ BlockedBy(a, "max_per_tx")
       /\ \E b \in Attempts : att[b].recorded > 0

(* C4: an attempt within the per-transaction cap is blocked with rate_limit as
   the last rule applied exactly when maxTransactionsPerMinute attempts on its
   account were confirmed during the 60s before it: the first N in a minute
   are not rate limited, the next one is. *)
C4_RateLimit ==
    [][ \A a \in Attempts :
          ( att[a].pc = "idle" /\ att'[a].pc # "idle" )
          => LET w == att'[a].record.walletId
                 n == Cardinality(RecentlyConfirmed(w))
                 limited == /\ att'[a].record.status = "blocked"
                            /\ Last(att'[a].record.guardrailsApplied) = "rate_limit"
             IN  limited <=> ( /\ att'[a].amountSol <= config.maxSolPerTransaction
                               /\ n >= config.maxTransactionsPerMinute ) ]_vars

C4_Witness ==
    \E a, b \in Attempts :
       /\ a < b
       /\ att[a].record.walletId = att[b].record.walletId
       /\ Cardinality(ConfirmedOn(att[a].record.walletId)) = config.maxTransactionsPerMinute
       /\ att[a].recorded > 0
       /\ BlockedBy(b, "rate_limit")

(* The window validate found for the account it was called for. *)
ProbedWindow ==
    IF ret.walletId \in DOMAIN ret.before
    THEN ret.before[ret.walletId] ELSE NewWindow(ret.at)
ProbedStale == ret.at - ProbedWindow.lastDayReset > DayMs
DeniedBy(rule) == ~ret.allowed /\ Last(ret.guardrails) = rule

(* C5: when validate reaches the daily rule with a window start more than 24h
   old it first sets dailySpend to 0 and the window start to now, so that it
   denies exactly when amount alone exceeds dailySpendingLimitSol; otherwise it
   leaves both alone and denies exactly when dailySpend + amount exceeds it. *)
C5_DailyReset ==
    ( Probed /\ Includes(ret.guardrails, "daily_limit") )
    => LET post == windows[ret.walletId]
       IN  IF ProbedStale
           THEN /\ post.dailySpend = 0
                /\ post.lastDayReset = ret.at
                /\ DeniedBy("daily_limit")
                     <=> ret.amountSol > config.dailySpendingLimitSol
           ELSE /\ post.dailySpend = ProbedWindow.dailySpend
                /\ post.lastDayReset = ProbedWindow.lastDayReset
                /\ DeniedBy("daily_limit")
                     <=> ProbedWindow.dailySpend + ret.amountSol
                            > config.dailySpendingLimitSol

C5_Witness ==
    /\ Probed /\ ProbedStale /\ ret.allowed
    /\ ProbedWindow.dailySpend + ret.amountSol > config.dailySpendingLimitSol
    /\ windows[ret.walletId].dailySpend = 0

(* C6 as claimed: an allowed validate returns all five rule names. *)
C6_FullRuleListOnAllow == ( Probed /\ ret.allowed ) => ret.guardrails = RuleOrder

(* C6 amended: an allowed validate returns max_per_tx, rate_limit, daily_limit,
   followed by program_allowlist exactly when both the configured allowlist
   and programIds are non-empty; blocked_address is never in that list. *)
C6_RuleListOnAllow ==
    ( Probed /\ ret.allowed )
    => ret.guardrails =
         IF config.allowedPrograms # << >> /\ ret.programIds # << >>
         THEN Append(FirstThree, "program_allowlist") ELSE FirstThree

C6_Witness ==
    /\ Probed /\ ret.allowed
    /\ ret.destination = GoodAddress
    /\ config.blockedAddresses # << >>
    /\ config.allowedPrograms # << >>
    /\ ret.programIds = << >>

(* The rules the validated call violates, read off the state validate found. *)
Violates(rule) ==
    CASE rule = "max_per_tx" -> ret.amountSol > config.maxSolPerTransaction
      [] rule = "rate_limit" ->
           Cardinality({ i \in 1..Len(ProbedWindow.timestamps) :
                           ret.at - ProbedWindow.timestamps[i] < MinuteMs })
             >= config.maxTransactionsPerMinute
      [] rule = "daily_limit" ->
           (IF ProbedStale THEN 0 ELSE ProbedWindow.dailySpend) + ret.amountSol
             > config.dailySpendingLimitSol
      [] rule = "program_allowlist" ->
           /\ config.allowedPrograms # << >>
           /\ Range(ret.programIds) \ Range(config.allowedPrograms) # { }
      [] rule = "blocked_address" ->
           /\ ret.destination # NoDestination
           /\ ret.destination \in Range(config.blockedAddresses)

RuleIndex(rule) == CHOOSE i \in 1..Len(RuleOrder) : RuleOrder[i] = rule

ReasonText(rule) ==
    CASE rule = "max_per_tx" -> "exceeds per-transaction limit"
      [] rule = "rate_limit" -> "Rate limit exceeded"
      [] rule = "daily_limit" -> "Daily spending limit exceeded"
      [] rule = "program_allowlist" -> "Programs not in allowlist"
      [] rule = "blocked_address" -> "Destination address is blocked"

(* C7 as claimed: a denied validate returns a prefix of the rule order that
   ends with the rule that failed. *)
C7_DeniedListIsPrefix ==
    ( Probed /\ ~ret.allowed )
    => /\ IsPrefix(ret.guardrails, RuleOrder)
       /\ Violates(Last(ret.guardrails))

(* C7 amended: a denied validate returns the rules up to the one that failed,
   in the fixed order, with program_allowlist left out when the configured
   allowlist or programIds is empty; its last element is the earliest rule of
   the order that is violated, and the reason names that rule. *)
C7_DeniedList ==
    ( Probed /\ ~ret.allowed )
    => LET failed == Last(ret.guardrails)
           skipped == IF config.allowedPrograms = << >> \/ ret.programIds = << >>
                      THEN { "program_allowlist" } ELSE { }
       IN  /\ failed \in Range(RuleOrder)
           /\ ret.guardrails =
                SelectSeq(SubSeq(RuleOrder, 1, RuleIndex(failed)),
                          LAMBDA r : r \notin skipped)
           /\ Violates(failed)
           /\ \A i \in 1..(RuleIndex(failed) - 1) : ~Violates(RuleOrder[i])
           /\ ret.reason.text = ReasonText(failed)

C7_Witness ==
    /\ Probed /\ DeniedBy("blocked_address")
    /\ Len(ret.guardrails) = 4

C7_WitnessSeveral ==
    /\ Probed /\ DeniedBy("rate_limit")
    /\ Violates("daily_limit") /\ Violates("blocked_address")

(* C8 as claimed: validate leaves every spend window as it found it. *)
C8_ValidateNeverMutates == Probed => windows = ret.before

(* C8 amended: validate changes no timestamps, no other account's window and
   never raises dailySpend; all it may do is create the empty window of an
   account it has not seen, once the per-transaction rule has passed, and
   reset dailySpend to 0 and the window start to now when it reaches the daily
   rule with a window start more than 24h old.  recordTransaction adds the
   amount to that account's dailySpend, appends one timestamp (now) after
   dropping those 5 minutes old or older, and leaves the other windows alone. *)
C8_Frame ==
    /\ Probed
       => /\ DOMAIN windows = DOMAIN ret.before
               \cup (IF Len(ret.guardrails) >= 2 THEN { ret.walletId } ELSE { })
          /\ \A w \in DOMAIN ret.before \ { ret.walletId } : windows[w] = ret.before[w]
          /\ ret.walletId \in DOMAIN windows
             => LET post == windows[ret.walletId]
                IN  /\ post.timestamps = ProbedWindow.timestamps
                    /\ \/ post = ProbedWindow
                       \/ /\ ProbedStale
                          /\ Includes(ret.guardrails, "daily_limit")
                          /\ post.dailySpend = 0
                          /\ post.lastDayReset = ret.at
    /\ ret.op = "recordTransaction"
       => LET old == ProbedWindow
              post == windows[ret.walletId]
              kept == { i \in 1..Len(old.timestamps) :
                          old.timestamps[i] > ret.at - TrimMs }
          IN  /\ DOMAIN windows = DOMAIN ret.before \cup { ret.walletId }
              /\ \A w \in DOMAIN ret.before \ { ret.walletId } :
                    windows[w] = ret.before[w]
              /\ post.dailySpend = old.dailySpend + ret.amountSol
              /\ post.lastDayReset = old.lastDayReset
              /\ Len(post.timestamps) = Cardinality(kept) + 1
              /\ Last(post.timestamps) = ret.at
              /\ \A i \in 1..(Len(post.timestamps) - 1) :
                    \E j \in kept : post.timestamps[i] = old.timestamps[j]

C8_Witness ==
    /\ Probed
    /\ ret.walletId \notin DOMAIN ret.before
    /\ ret.walletId \in DOMAIN windows
    /\ ret.before # << >>

C8_WitnessRecord ==
    /\ ret.op = "recordTransaction"
    /\ ret.walletId \in DOMAIN ret.before
    /\ ret.before[ret.walletId].timestamps # << >>
    /\ Len(windows[ret.walletId].timestamps) = 1

(* C9: when the configured allowlist is non-empty and some programIds entry
   is not in it, or when the destination is in blockedAddresses, validate
   denies; a denial by the allowlist rule cites exactly the entries that are
   not allowed; a transferSol to a blocked destination returns blocked with
   the key never resolved and the ledger never called. *)
C9_ListsEnforced ==
    /\ \A a \in Attempts :
          Called(a)
          => LET me == att[a]
                 notAllowed == { i \in 1..Len(me.programIds) :
                                   me.programIds[i] \notin Range(config.allowedPrograms) }
             IN  /\ ( config.allowedPrograms # << >> /\ notAllowed # { } )
                    => /\ Returned(a) /\ me.record.status = "blocked"
                       /\ BlockedBy(a, "program_allowlist")
                          => /\ me.record.error.text = "Programs not in allowlist"
                             /\ Range(me.record.error.names)
                                  = { me.programIds[i] : i \in notAllowed }
                 /\ me.destination \in Range(config.blockedAddresses)
                    => /\ Returned(a) /\ me.record.status = "blocked"
                       /\ me.record.signature = NoSignature
                       /\ ~me.keyResolved
                       /\ me.ledgerCalls = 0
    /\ \A w \in Wallets, p \in ProgramLists :
          LET v == Validate(config, windows, now, w, 1, p, BadAddress)
              notAllowed == { i \in 1..Len(p) : p[i] \notin Range(config.allowedPrograms) }
          IN  /\ ( config.allowedPrograms # << >> /\ notAllowed # { } )
                 => /\ ~v.allowed
                    /\ Last(v.guardrails) = "program_allowlist"
                       => /\ Len(v.reason.names) = Cardinality(notAllowed)
                          /\ Range(v.reason.names) = { p[i] : i \in notAllowed }
              /\ BadAddress \in Range(config.blockedAddresses) => ~v.allowed

C9_Witness ==
    \E a \in Attempts :
       /\ att[a].kind = "transferSol" /\ att[a].destination = BadAddress
       /\ Returned(a) /\ BlockedBy(a, "blocked_address")

C9_WitnessAllowlist ==
    \E a \in Attempts :
       /\ Returned(a) /\ BlockedBy(a, "program_allowlist")
       /\ att[a].record.error.names = << SystemProgram >>

(* C10: every record an entry point returns, and every line of the
   transaction log, has a terminal status and exactly one of signature and
   error: a signature and no error when confirmed, an error and no signature
   when failed or blocked. *)
WellFormed(record) ==
    /\ record.status \in Terminal
    /\ record.status = "confirmed"
       => record.signature # NoSignature /\ record.error = NoReason
    /\ record.status # "confirmed"
       => record.signature = NoSignature /\ record.error # NoReason

C10_RecordInvariant ==
    /\ \A a \in Attempts : Returned(a) => WellFormed(att[a].record)
    /\ \A i \in 1..Len(txLog) : WellFormed(txLog[i])

(* The lines of transactions.jsonl written for attempt a. *)
LinesOf(a) == { i \in 1..Len(txLog) : txLog[i].id = a }

(* C11: an attempt that has ended has exactly one line in the transaction
   log, with a terminal status that is the status of the record it returned;
   an attempt still in flight has none. *)
C11_OneTerminalRecord ==
    \A a \in Attempts :
       Called(a)
       => /\ Cardinality(LinesOf(a)) = IF Ended(a) THEN 1 ELSE 0
          /\ \A i \in LinesOf(a) :
                /\ txLog[i].status \in Terminal
                /\ txLog[i].status = att[a].record.status

-----------------------------------------------------------------------------
(* Denied actions: transferSol on the first wallet and signAndSend on either
   wallet, one call after the other, with audit appends that may throw while
   a denial is logged. *)

DenialTimeSteps == { DayMs + 1 }

(* The appends all succeed; logEvent throws once; logTransaction throws once;
   logTransaction throws in the try block and again in the catch block. *)
DenialFaults ==
    { NoFaults, [ NoFaults EXCEPT !.t2 = TRUE ], [ NoFaults EXCEPT !.t1 = TRUE ],
      [ NoFaults EXCEPT !.t1 = TRUE, !.c1 = TRUE ] }

NextDenial ==
    \/ \E a \in Attempts, to \in EngineAddresses, amt \in EngineAmounts,
          f \in DenialFaults :
             NoneInFlight /\ TransferSol(a, "w1", to, amt, f)
    \/ \E a \in Attempts, p \in EnginePrograms,
          f \in { NoFaults, [ NoFaults EXCEPT !.t2 = TRUE ] } :
          \E w \in WalletsFor(a) : NoneInFlight /\ SignAndSend(a, w, 2, p, f)
    \/ \E a \in Attempts : Resolve(a, "ok", NoFaults)
    \/ \E a \in Attempts : Send(a, TRUE, NoFaults)
    \/ \E d \in DenialTimeSteps : NoneInFlight /\ Tick(d)

SpecDenial == Init /\ [][NextDenial]_vars

(* What validate answers to the call that attempt a makes as it starts. *)
VerdictFor(a) ==
    Validate(config, windows, now, att'[a].record.walletId, att'[a].amountSol,
             att'[a].programIds, att'[a].destination)

Starts(a) == att[a].pc = "idle" /\ att'[a].pc # "idle" /\ att'[a].kind # "airdrop"

(* No key, no ledger call, no recordTransaction, and the rules evaluated. *)
NothingSpent(a) ==
    /\ att'[a].pc \in { "done", "threw" }
    /\ ~att'[a].keyResolved
    /\ att'[a].ledgerCalls = 0
    /\ att'[a].recorded = 0
    /\ att'[a].record.signature = NoSignature
    /\ att'[a].record.guardrailsApplied = VerdictFor(a).guardrails

(* The blocked record, its line in the log and its event. *)
BlockedAndLogged(a) ==
    /\ att'[a].pc = "done"
    /\ att'[a].record.status = "blocked"
    /\ att'[a].record.error = VerdictFor(a).reason
    /\ txLog' = Append(txLog, LogLine(a, att'[a].record))
    /\ events' = Append(events, [ type |-> "transaction:blocked", id |-> a ])

(* C12 as claimed: a denied action resolves no key, calls neither the ledger
   nor recordTransaction, is logged as blocked with the guardrail reason, and
   leaves the spend windows as they were. *)
C12_DeniedLeavesWindows ==
    [][ \A a \in Attempts :
          ( Starts(a) /\ ~VerdictFor(a).allowed /\ ~att'[a].appendFailed )
          => /\ NothingSpent(a)
             /\ BlockedAndLogged(a)
             /\ windows' = windows ]_vars

(* C12 amended: a denied action resolves no key, calls neither the ledger nor
   recordTransaction, and adds no spend: every window keeps its timestamps and
   no dailySpend grows, the only changes being those validate makes (the
   empty window of an account not seen before, the reset of a daily window
   more than 24h old).  When the audit appends succeed the record is blocked
   with the guardrail reason, appended once, and transaction:blocked is
   emitted; when one throws the record is failed with that append's error. *)
C12_DeniedAction ==
    [][ \A a \in Attempts :
          ( Starts(a) /\ ~VerdictFor(a).allowed )
          => /\ NothingSpent(a)
             /\ windows' = VerdictFor(a).windows
             /\ DOMAIN windows' \subseteq DOMAIN windows \cup { att'[a].record.walletId }
             /\ \A w \in DOMAIN windows :
                   /\ windows'[w].timestamps = windows[w].timestamps
                   /\ windows'[w].dailySpend <= windows[w].dailySpend
             /\ \A w \in DOMAIN windows' \ DOMAIN windows : windows'[w] = NewWindow(now)
             /\ IF att'[a].appendFailed
                THEN /\ att'[a].record.status = "failed"
                     /\ att'[a].record.error.text
                          \in { "ENOSPC: transactions.jsonl", "ENOSPC: events.jsonl" }
                ELSE BlockedAndLogged(a) ]_vars

(* A denial by the blocklist of a transfer from an account whose daily window
   had gone stale: the window was reset, nothing was spent. *)
C12_Witness ==
    \E a \in Attempts, w \in DOMAIN windows :
       /\ Returned(a) /\ BlockedBy(a, "blocked_address")
       /\ att[a].record.walletId = w
       /\ windows[w].timestamps # << >>
       /\ windows[w].dailySpend = 0
       /\ att[a].ledgerCalls = 0 /\ ~att[a].keyResolved

(* The amounts recordTransaction was given by the attempts in S. *)
RECURSIVE SumRecorded(_)
SumRecorded(S) ==
    IF S = { } THEN 0
    ELSE LET a == CHOOSE x \in S : TRUE
         IN  att[a].recorded * att[a].amountSol + SumRecorded(S \ { a })

(* C13: recordTransaction is called once for a spending attempt (any entry
   point but the faucet request) that returns confirmed and never for one
   that returns failed or blocked, so with no
   reset and no pruning an account's dailySpend is the sum of the amounts of
   its confirmed attempts and it has one timestamp per confirmed attempt. *)
C13_QuotaOnlyWhenConfirmed ==
    /\ \A a \in Attempts :
          ( Returned(a) /\ att[a].kind # "airdrop" )
          => att[a].recorded = IF att[a].record.status = "confirmed" THEN 1 ELSE 0
    /\ \A w \in DOMAIN windows :
          LET confirmed == { a \in Attempts : /\ Returned(a)
                                              /\ att[a].record.walletId = w
                                              /\ att[a].record.status = "confirmed"
                                              /\ att[a].kind # "airdrop" }
          IN  NoneInFlight
              => /\ windows[w].dailySpend = SumRecorded(confirmed)
                 /\ Len(windows[w].timestamps) = Cardinality(confirmed)

(* What the collaborators throw: key resolution, building, submission. *)
UnderlyingMessages ==
    { "Wallet not found", "Invalid public key input", "Transaction simulation failed",
      "airdrop request failed" }

(* C14: whatever the guardrails answer and whichever of key resolution,
   building, submission or the faucet request fails, an entry point whose
   audit appends succeed returns a record: blocked with the guardrail reason,
   failed with the underlying message, or confirmed; it never throws. *)
C14_NoExceptionEscapes ==
    \A a \in Attempts :
       ( Ended(a) /\ ~att[a].appendFailed )
       => /\ Returned(a)
          /\ att[a].record.status \in Terminal
          /\ att[a].record.status = "failed"
             => /\ att[a].record.error.text \in UnderlyingMessages
                /\ att[a].recorded = 0
          /\ att[a].record.status = "blocked"
             => /\ att[a].record.error.text \in { ReasonText(r) : r \in Range(RuleOrder) }
                /\ att[a].record.guardrailsApplied # << >>

(* An unknown account id: key resolution throws, the record comes back failed. *)
C14_Witness ==
    \E a \in Attempts :
       /\ att[a].kind = "transferSol"
       /\ Returned(a) /\ ~att[a].keyResolved
       /\ att[a].record.status = "failed"
       /\ att[a].record.error.text = "Wallet not found"

Guarded == { "transferSol", "transferToken", "signAndSend" }

(* C15 as claimed: every entry point has called validate, so every record of
   a started attempt lists the rules evaluated. *)
C15_EveryEntryPointValidates ==
    \A a \in Attempts : Called(a) => att[a].record.guardrailsApplied # << >>

(* C15 amended: transferSol, transferToken and signAndSend call validate before
   the key is resolved or the ledger called, their record lists the rules
   evaluated and they end blocked when validate denies; airdrop calls no
   guardrail: its record's guardrailsApplied stays empty, it is never blocked
   and it leaves the spend windows alone, whatever the amount. *)
C15_Skeleton ==
    \A a \in Attempts :
       Called(a)
       => IF att[a].kind \in Guarded
          THEN /\ att[a].record.guardrailsApplied # << >>
               /\ att[a].record.guardrailsApplied[1] = "max_per_tx"
               /\ ( att[a].keyResolved \/ att[a].ledgerCalls > 0 )
                  => /\ IsPrefix(FirstThree, att[a].record.guardrailsApplied)
                     /\ att[a].record.status # "blocked"
          ELSE /\ att[a].kind = "airdrop"
               /\ att[a].record.guardrailsApplied = << >>
               /\ att[a].record.status # "blocked"
               /\ att[a].recorded = 0
               /\ att[a].record.walletId \in DOMAIN windows
                  => \E b \in Attempts \ { a } :
                        /\ att[b].kind \in Guarded
                        /\ att[b].record.walletId = att[a].record.walletId

(* A faucet request for more than the per-transaction cap, confirmed. *)
C15_Witness ==
    \E a \in Attempts :
       /\ att[a].kind = "airdrop" /\ Returned(a)
       /\ att[a].amountSol > config.maxSolPerTransaction
       /\ att[a].record.status = "confirmed"
       /\ att[a].record.guardrailsApplied = << >>

-----------------------------------------------------------------------------
(* Skills: what an agent's chosen action dispatches to *)

(* transfer: TransactionEngine.transferSol on the agent's wallet. *)
TransferSkill(a, walletId, to, amount) == TransferSol(a, walletId, to, amount, NoFaults)

(* swap, wrap_sol, stake_sol: the skill hands the wallet manager to a protocol
   adapter, which resolves the key, signs and calls sendRawTransaction itself.
   No TransactionRecord is created and no Guardrails method is called; an
   exception leaves the skill.  The entry keeps the wallet id only. *)
AdapterSkills == { "swap", "wrap_sol", "stake_sol" }
AdapterOutcomes == { "ok", "keyError", "sendError" }

AdapterSkill(a, skill, walletId, amount, outcome) ==
    /\ NextToCall(a)
    /\ att' = [ att EXCEPT ![a] =
                  [ NotCalled EXCEPT
                      !.pc = IF outcome = "ok" THEN "done" ELSE "threw",
                      !.kind = skill,
                      !.amountSol = amount,
                      !.record = [ NotCalled.record EXCEPT !.walletId = walletId ],
                      !.keyResolved = (outcome # "keyError"),
                      !.ledgerCalls = IF outcome = "keyError" THEN 0 ELSE 1 ] ]
    /\ UNCHANGED << now, ticks, config, windows, txLog, events, calls, ret, configs, agents,
                    memory, added, listeners, delivered >>

NextSkills ==
    \/ \E a \in Attempts, to \in EngineAddresses, amt \in EngineAmounts :
          \E w \in WalletsFor(a) : TransferSkill(a, w, to, amt)
    \/ \E a \in Attempts : Resolve(a, "ok", NoFaults)
    \/ \E a \in Attempts, c \in BOOLEAN : Send(a, c, NoFaults)
    \/ \E a \in Attempts, skill \in AdapterSkills, amt \in EngineAmounts,
          o \in AdapterOutcomes : \E w \in WalletsFor(a) :
             AdapterSkill(a, skill, w, amt, o)

SpecSkills == Init /\ [][NextSkills]_vars

(* C16: whichever skill submitted it, a transaction reached the ledger only
   after validate was consulted and passed, and so never for an amount above
   the per-transaction limit. *)
C16_SkillsPassGuardrails ==
    \A a \in Attempts :
       att[a].ledgerCalls > 0
       => /\ IsPrefix(FirstThree, att[a].record.guardrailsApplied)
          /\ att[a].amountSol <= config.maxSolPerTransaction

-----------------------------------------------------------------------------
(* Orchestrator: src/src/agent/orchestrator.ts *)

AgentIds == { "agent-1", "agent-2" }

(* walletManager.createWallet: the wallet made for the agent *)
WalletOf(agentId) == IF agentId = "agent-1" THEN "w1" ELSE "w2"

(* CreateAgentOptions: the three limits createAgent reads, each optional *)
AgentOptions ==
    { << >>,
      [ maxSolPerTransaction |-> 1 ],
      [ maxTransactionsPerMinute |-> 1, dailySpendingLimitSol |-> 3 ] }

(* options.x ?? DEFAULT_GUARDRAIL_CONFIG.x *)
OptionOr(options, k) ==
    IF k \in DOMAIN options THEN options[k] ELSE DEFAULT_GUARDRAIL_CONFIG[k]

(* AgentConfig.guardrails as createAgent builds it *)
AgentGuardrails(options) ==
    [ DEFAULT_GUARDRAIL_CONFIG EXCEPT
        !.maxSolPerTransaction = OptionOr(options, "maxSolPerTransaction"),
        !.maxTransactionsPerMinute = OptionOr(options, "maxTransactionsPerMinute"),
        !.dailySpendingLimitSol = OptionOr(options, "dailySpendingLimitSol") ]

(* new AgentRuntime(config, ...): cycle, running and loopTimer are the fields
   of the class (0 is a null loopTimer).  timers are the setTimeout handles
   of this runtime still pending, handles counts the handles made so far,
   inflight holds the executeCycle invocations suspended at an await, each
   with its locals, dispatched lists the skills handed to the registry,
   inputs lists what the collaborators answered (the LLM in think, the
   skill in act, and where remember failed), decisions is the file
   agent-<id>.jsonl, lifecycle lists the calls of
   start, stop and pause, index is the runtime's place in the insertion
   order of Orchestrator.agents, config names the AgentConfig object the
   runtime holds (this.config = config: the one stored in
   Orchestrator.configs under the agent's id). *)
NewRuntime ==
    [ cycle |-> 0, running |-> FALSE, loopTimer |-> 0,
      timers |-> {}, handles |-> 0,
      inflight |-> {}, dispatched |-> << >>, inputs |-> << >>, decisions |-> << >>,
      lifecycle |-> << >>, index |-> 0, config |-> "" ]

(* walletManager.createWallet: Keypair.generate(), a key no other wallet
   has, named here by the wallet it was generated for. *)
GeneratedKey(walletId) == [ from |-> "generate", seed |-> walletId, index |-> 0 ]

(* walletManager.createDerivedWallet: Keypair.fromSeed of the path
   m/44'/501'/<derivationIndex>'/0' under the mnemonic's seed, a function of
   the two and of nothing else. *)
DerivedKey(mnemonic, derivationIndex) ==
    [ from |-> "mnemonic", seed |-> mnemonic, index |-> derivationIndex ]

(* createAgent's choice of wallet: derived when options.mnemonic is truthy
   and options.derivationIndex is given, generated otherwise.  The id of the
   wallet is a uuid in both branches. *)
WalletInfo(agentId, options) ==
    [ id |-> WalletOf(agentId),
      publicKey |->
          IF /\ "mnemonic" \in DOMAIN options
             /\ options.mnemonic # ""
             /\ "derivationIndex" \in DOMAIN options
          THEN DerivedKey(options.mnemonic, options.derivationIndex)
          ELSE GeneratedKey(WalletOf(agentId)) ]

(* createAgent: the agent, its wallet, its config and its runtime.  The
   merged limits go into AgentConfig.guardrails and nowhere else: the runtime
   is handed the orchestrator's one TransactionEngine, whose Guardrails
   instance is left as it was.  publicKey is the key the keystore holds
   under the config's walletId (keystore.encrypt in both wallet calls). *)
CreateAgent(agentId, options) ==
    /\ agentId \notin DOMAIN configs
    /\ configs' = [ id \in DOMAIN configs \cup { agentId } |->
                      IF id = agentId
                      THEN [ id |-> agentId,
                             walletId |-> WalletInfo(agentId, options).id,
                             publicKey |-> WalletInfo(agentId, options).publicKey,
                             guardrails |-> AgentGuardrails(options),
                             status |-> "idle" ]
                      ELSE configs[id] ]
    /\ agents' = [ id \in DOMAIN agents \cup { agentId } |->
                     IF id = agentId
                     THEN [ NewRuntime EXCEPT !.index = Cardinality(DOMAIN agents) + 1,
                                              !.config = agentId ]
                     ELSE agents[id] ]
    /\ UNCHANGED << now, ticks, config, windows, att, txLog, events, calls, ret,
                    memory, added, listeners, delivered >>

(* AgentRuntime.act with the send_sol skill: context.walletId is the
   agent's config.walletId, context.transactionEngine the shared engine. *)
AgentTransfer(a, agentId, to, amount) ==
    /\ agentId \in DOMAIN configs
    /\ TransferSkill(a, configs[agentId].walletId, to, amount)

(* src/src/mcp/server.ts: new Guardrails(undefined, logger), one for the process *)
InitOrchestrator ==
    /\ now = 0
    /\ ticks = 0
    /\ config = DEFAULT_GUARDRAIL_CONFIG
    /\ windows = << >>
    /\ att = [ a \in Attempts |-> NotCalled ]
    /\ txLog = << >>
    /\ events = << >>
    /\ calls = 0
    /\ ret = NoCall
    /\ configs = << >>
    /\ agents = << >>
    /\ memory = << >>
    /\ added = << >>
    /\ listeners = NoListeners
    /\ delivered = << >>

(* Agents are created with and without overrides, and each sends SOL from
   its own wallet through the transfer skill. *)
NextAgents ==
    \/ \E ag \in AgentIds, o \in AgentOptions : CreateAgent(ag, o)
    \/ \E a \in Attempts, ag \in AgentIds, to \in { GoodAddress }, amt \in Amounts :
          AgentTransfer(a, ag, to, amt)
    \/ \E a \in Attempts : Resolve(a, "ok", NoFaults)
    \/ \E a \in Attempts, c \in BOOLEAN : Send(a, c, NoFaults)

SpecAgents == InitOrchestrator /\ [][NextAgents]_vars

AgentOfWallet(walletId) == { ag \in DOMAIN configs : configs[ag].walletId = walletId }

(* C17: a transfer of an agent above that agent's own maxSolPerTransaction
   is blocked, also when it is within the process-wide default. *)
C17_AgentLimitsEnforced ==
    \A a \in Attempts : \A ag \in AgentOfWallet(att[a].record.walletId) :
       (Called(a) /\ att[a].amountSol > configs[ag].guardrails.maxSolPerTransaction)
       => /\ att[a].record.status = "blocked"
          /\ att[a].ledgerCalls = 0

-----------------------------------------------------------------------------
(* AgentRuntime: src/src/agent/runtime.ts *)

MaxLifecycle == 4
MaxCycles == 2

RECURSIVE SumOver(_, _)
SumOver(f, S) ==
    IF S = {} THEN 0
    ELSE LET x == CHOOSE y \in S : TRUE IN f[x] + SumOver(f, S \ { x })

(* executeCycle invocations of the agent that have begun and not ended *)
CyclesInFlight(r) == Cardinality(r.inflight)

LifecycleCalls == SumOver([ ag \in DOMAIN agents |-> Len(agents[ag].lifecycle) ], DOMAIN agents)
CyclesBegun == SumOver([ ag \in DOMAIN agents |-> agents[ag].cycle ], DOMAIN agents)

(* Variant: start() without its guard *)
AlreadyRunningNever(r) == FALSE

(* start: if (this.running) return *)
AlreadyRunning(r) == r.running

(* runLoop up to its first await: the running check, then executeCycle
   increments cycle and suspends in observe *)
(* A cycle that has begun and not yet observed *)
NotObserved == [ error |-> << >>, state |-> "", cycle |-> 0 ]
NewCycle(n) ==
    [ n |-> n, pc |-> "observe", observations |-> NotObserved, reasoning |-> "",
      action |-> "" ]

RunLoop(r) ==
    IF ~r.running THEN r
    ELSE [ r EXCEPT !.cycle = @ + 1, !.inflight = @ \cup { NewCycle(r.cycle + 1) } ]

(* runLoop after executeCycle settled: if (this.running) loopTimer = setTimeout(...) *)
Schedule(r) ==
    IF ~r.running THEN r
    ELSE [ r EXCEPT !.handles = @ + 1, !.loopTimer = r.handles + 1,
                    !.timers = @ \cup { r.handles + 1 } ]

(* clearTimeout(this.loopTimer); this.loopTimer = null *)
ClearTimer(r) == [ r EXCEPT !.timers = @ \ { r.loopTimer }, !.loopTimer = 0 ]

AgentEvent(type, agentId) == [ type |-> type, agentId |-> agentId ]

(* start(), called on the runtime or through Orchestrator.startAgent, which
   writes config.status = 'running' after start() has returned *)
Start(agentId, viaOrchestrator) ==
    /\ agentId \in DOMAIN agents
    /\ LifecycleCalls < MaxLifecycle
    /\ LET r == [ agents[agentId] EXCEPT !.lifecycle = Append(@, "start") ]
       IN  IF AlreadyRunning(agents[agentId])
           THEN /\ agents' = [ agents EXCEPT ![agentId] = r ]
                /\ configs' = IF viaOrchestrator
                              THEN [ configs EXCEPT ![agentId].status = "running" ]
                              ELSE configs
                /\ UNCHANGED events
           ELSE /\ CyclesBegun < MaxCycles
                /\ agents' = [ agents EXCEPT ![agentId] =
                                 RunLoop([ r EXCEPT !.running = TRUE ]) ]
                /\ configs' = [ configs EXCEPT ![agentId].status = "running" ]
                /\ events' = Append(events, AgentEvent("agent:started", agentId))
    /\ UNCHANGED << now, ticks, config, windows, att, txLog, calls, ret,
                    memory, added, listeners, delivered >>

(* stop(), also as Orchestrator.stopAgent and stopAll call it *)
Stop(agentId) ==
    /\ agentId \in DOMAIN agents
    /\ LifecycleCalls < MaxLifecycle
    /\ agents' = [ agents EXCEPT ![agentId] =
                     ClearTimer([ @ EXCEPT !.running = FALSE,
                                           !.lifecycle = Append(@, "stop") ]) ]
    /\ configs' = [ configs EXCEPT ![agentId].status = "stopped" ]
    /\ events' = Append(events, AgentEvent("agent:stopped", agentId))
    /\ UNCHANGED << now, ticks, config, windows, att, txLog, calls, ret,
                    memory, added, listeners, delivered >>

(* pause(), also as Orchestrator.pauseAgent calls it *)
Pause(agentId) ==
    /\ agentId \in DOMAIN agents
    /\ LifecycleCalls < MaxLifecycle
    /\ agents' = [ agents EXCEPT ![agentId] =
                     ClearTimer([ @ EXCEPT !.running = FALSE,
                                           !.lifecycle = Append(@, "pause") ]) ]
    /\ configs' = [ configs EXCEPT ![agentId].status = "paused" ]
    /\ UNCHANGED << now, ticks, config, windows, att, txLog, events, calls, ret,
                    memory, added, listeners, delivered >>

(* for (const [id, runtime] of this.agents): the ids in insertion order *)
AgentOrder ==
    [ i \in 1..Cardinality(DOMAIN agents) |->
        CHOOSE ag \in DOMAIN agents : agents[ag].index = i ]

(* stopAll: stop() on every runtime, then config.status = 'stopped' *)
StopAll ==
    /\ DOMAIN agents # {}
    /\ LifecycleCalls < MaxLifecycle
    /\ agents' = [ ag \in DOMAIN agents |->
                     ClearTimer([ agents[ag] EXCEPT !.running = FALSE,
                                                    !.lifecycle = Append(@, "stop") ]) ]
    /\ configs' = [ ag \in DOMAIN configs |-> [ configs[ag] EXCEPT !.status = "stopped" ] ]
    /\ events' = events \o [ i \in 1..Cardinality(DOMAIN agents) |->
                                AgentEvent("agent:stopped", AgentOrder[i]) ]
    /\ UNCHANGED << now, ticks, config, windows, att, txLog, calls, ret,
                    memory, added, listeners, delivered >>

(* A pending setTimeout callback runs: () => this.runLoop().  The handle
   stays in loopTimer. *)
TimerFires(agentId, h) ==
    /\ agentId \in DOMAIN agents
    /\ h \in agents[agentId].timers
    /\ agents[agentId].running => CyclesBegun < MaxCycles
    /\ agents' = [ agents EXCEPT ![agentId] = RunLoop([ @ EXCEPT !.timers = @ \ { h } ]) ]
    /\ UNCHANGED << now, ticks, config, windows, att, txLog, events, calls, ret, configs,
                    memory, added, listeners, delivered >>

(* MemoryStore, src/unnamed/part_005 *)
MemoryCap == 100

(* getMemories without a limit: the file's entries, none when there is no file *)
GetMemories(mem, agentId) == IF agentId \in DOMAIN mem THEN mem[agentId] ELSE << >>

(* Variant: the first entries are kept, entries.slice(0, k) *)
SliceFirst(entries, k) ==
    IF Len(entries) <= k THEN entries ELSE SubSeq(entries, 1, k)

(* memories.slice(-100) *)
SliceLast(entries, k) ==
    IF Len(entries) <= k THEN entries
    ELSE SubSeq(entries, Len(entries) - k + 1, Len(entries))

(* addMemory: read, push, slice, write *)
AddMemory(mem, agentId, entry) ==
    LET trimmed == SliceLast(Append(GetMemories(mem, agentId), entry), MemoryCap)
    IN  [ id \in DOMAIN mem \cup { agentId } |->
            IF id = agentId THEN trimmed ELSE mem[id] ]

Handed(log, agentId, entry) ==
    [ id \in DOMAIN log \cup { agentId } |->
        IF id \in DOMAIN log
        THEN IF id = agentId THEN Append(log[id], entry) ELSE log[id]
        ELSE << entry >> ]

(* SkillRegistry, src/src/agent/skills/index.ts *)
RegisteredSkills ==
    { "check_balance", "swap", "transfer", "airdrop", "token_info", "wait",
      "launch_token", "mint_supply", "revoke_mint_authority", "stake_sol",
      "unstake_sol", "withdraw_stake", "list_stakes", "burn_tokens",
      "close_token_account", "wrap_sol", "unwrap_sol" }

SkillOutcomes == { "returns", "throws" }

Resolves(value) == [ rejects |-> FALSE, value |-> value ]

(* Variant: execute without its try/catch *)
ExecuteNoCatch(skillName, skillOutcome) ==
    IF skillName \notin RegisteredSkills
    THEN Resolves(<< "Error: Unknown skill", skillName >>)
    ELSE IF skillOutcome = "throws"
    THEN [ rejects |-> TRUE, value |-> << "Error executing skill", skillName >> ]
    ELSE Resolves(<< "result of", skillName >>)

(* SkillRegistry.execute: the string it resolves with *)
Execute(skillName, skillOutcome) ==
    IF skillName \notin RegisteredSkills
    THEN Resolves(<< "Error: Unknown skill", skillName >>)
    ELSE IF skillOutcome = "throws"
    THEN Resolves(<< "Error executing skill", skillName >>)
    ELSE Resolves(<< "result of", skillName >>)

NoReasoning == "No explicit reasoning provided."
NoAction == << "No action taken this cycle." >>

(* Variant: the last tool call is taken *)
ChosenActionLast(response) ==
    IF Len(response.toolCalls) > 0 THEN response.toolCalls[Len(response.toolCalls)] ELSE ""

(* think: action and reasoning from the LLM response *)
ChosenAction(response) ==
    IF Len(response.toolCalls) > 0 THEN response.toolCalls[1] ELSE ""
Reasoning(response) ==
    IF response.content # "" THEN response.content ELSE NoReasoning

(* Where the remember step can throw: nowhere, or at one of its writes *)
RememberFaults == { "none", "logDecision", "logEvent", "addMemory" }

(* The end of one runLoop invocation, from the point where executeCycle
   goes on to remember or has thrown: the decision is written to the
   agent's decision file, to the event log and to the memory store, up to
   the write that throws; the catch block on a throw; then the scheduling
   of the next tick.  r is the runtime without the settled cycle; the
   decision carries this.cycle as it is now. *)
Settle(agentId, r, c, outcome, fault) ==
    LET decision == [ cycle |-> r.cycle, reasoning |-> c.reasoning,
                      action |-> c.action, outcome |-> outcome ]
        logged == fault \notin { "observe", "think", "act", "logDecision" }
        evented == logged /\ fault # "logEvent"
        stored == evented /\ fault # "addMemory"
        r1 == IF logged THEN [ r EXCEPT !.decisions = Append(@, decision) ] ELSE r
        ev1 == IF evented THEN Append(events, AgentEvent("agent:decision", agentId))
                          ELSE events
    IN  /\ agents' = [ agents EXCEPT ![agentId] = Schedule(r1) ]
        /\ memory' = IF stored THEN AddMemory(memory, agentId, decision) ELSE memory
        /\ added' = IF stored THEN Handed(added, agentId, decision) ELSE added
        /\ configs' = IF fault # "none"
                      THEN [ configs EXCEPT ![agentId].status = "error" ]
                      ELSE configs
        /\ events' = IF fault # "none"
                     THEN Append(ev1, AgentEvent("agent:error", agentId))
                     ELSE ev1

CycleAt(agentId, n, pc) ==
    { c \in agents[agentId].inflight : c.n = n /\ c.pc = pc }

Without(r, c) == [ r EXCEPT !.inflight = @ \ { c } ]

(* What happens inside observe: the queries succeed, getBalances throws
   'Wallet not found' for a wallet id the wallet manager does not know, or
   the balance query fails *)
ObserveOutcomes == { "ok", "unknown wallet", "balance query fails" }

(* The object observe returns: the wallet state, or only the error *)
Observations(outcome, cycle) ==
    IF outcome = "ok"
    THEN [ error |-> << >>, state |-> "wallet, balances, recentTransactions",
           cycle |-> cycle ]
    ELSE [ error |-> << "Failed to observe: ", outcome >>, state |-> "", cycle |-> cycle ]

(* Variant: observe without its try/catch *)
ObserveNoCatch(outcome, cycle) ==
    [ rejects |-> outcome # "ok", value |-> Observations(outcome, cycle) ]

(* observe: try { ... return {...} } catch { return { error, ... } } *)
ObserveCaught(outcome, cycle) ==
    [ rejects |-> FALSE, value |-> Observations(outcome, cycle) ]

(* observe resolves; it catches its own errors, and think is called with
   what it returned *)
Observe(agentId, n, outcome) ==
    /\ agentId \in DOMAIN agents
    /\ \E c \in CycleAt(agentId, n, "observe") :
          LET x == ObserveCaught(outcome, agents[agentId].cycle)
          IN  IF x.rejects
              THEN Settle(agentId, Without(agents[agentId], c), c, NoAction, "observe")
              ELSE /\ agents' = [ agents EXCEPT ![agentId].inflight =
                                    (@ \ { c }) \cup { [ c EXCEPT !.pc = "think",
                                                                  !.observations = x.value ] } ]
                   /\ UNCHANGED << configs, events, memory, added >>
    /\ UNCHANGED << now, ticks, config, windows, att, txLog, calls, ret,
                    listeners, delivered >>

(* An LLMResponse, or the rejection of llm.chat *)
Rejects == [ content |-> "", toolCalls |-> << >>, rejects |-> TRUE ]
Response(content, toolCalls) ==
    [ content |-> content, toolCalls |-> toolCalls, rejects |-> FALSE ]

(* think resolves or rejects.  With a tool call the first one is handed to
   SkillRegistry.execute and the cycle waits in act; without one the cycle
   goes on to remember at once. *)
Think(agentId, n, response, fault) ==
    /\ agentId \in DOMAIN agents
    /\ \E c \in CycleAt(agentId, n, "think") :
          LET r == [ Without(agents[agentId], c) EXCEPT
                       !.inputs = Append(@, [ n |-> n, step |-> "think",
                                              observations |-> c.observations,
                                              answer |-> response,
                                              fault |-> IF response.rejects
                                                           \/ ChosenAction(response) # ""
                                                        THEN "none" ELSE fault ]) ]
              d == [ c EXCEPT !.reasoning = Reasoning(response),
                              !.action = ChosenAction(response) ]
          IN  IF response.rejects
              THEN Settle(agentId, r, c, NoAction, "think")
              ELSE IF d.action # ""
              THEN /\ agents' = [ agents EXCEPT ![agentId] =
                                    [ r EXCEPT !.inflight = @ \cup { [ d EXCEPT !.pc = "act" ] },
                                               !.dispatched = Append(@, << n, d.action >>) ] ]
                   /\ UNCHANGED << configs, events, memory, added >>
              ELSE Settle(agentId, r, d, NoAction, fault)
    /\ UNCHANGED << now, ticks, config, windows, att, txLog, calls, ret,
                    listeners, delivered >>

(* act resolves with the string of SkillRegistry.execute, which catches the
   skill's errors; then remember *)
Act(agentId, n, skillOutcome, fault) ==
    /\ agentId \in DOMAIN agents
    /\ \E c \in CycleAt(agentId, n, "act") :
          LET r == [ Without(agents[agentId], c) EXCEPT
                       !.inputs = Append(@, [ n |-> n, step |-> "act",
                                              observations |-> c.observations,
                                              answer |-> skillOutcome, fault |-> fault ]) ]
              x == Execute(c.action, skillOutcome)
          IN  Settle(agentId, r, c, x.value, IF x.rejects THEN "act" ELSE fault)
    /\ UNCHANGED << now, ticks, config, windows, att, txLog, calls, ret,
                    listeners, delivered >>

(* The responses and faults of the lifecycle runs *)
RuntimeResponses == { Rejects, Response("hold", << >>), Response("send", << "transfer" >>) }
RuntimeFaults == { "none", "logDecision" }

(* Agent ids are interchangeable: the first agent created is agent-1. *)
NextAgentId(agentId) == agentId = "agent-1" \/ "agent-1" \in DOMAIN agents

(* One agent: its lifecycle calls, its timers and the awaits of its cycles
   in every order. *)
NextRuntime ==
    \/ CreateAgent("agent-1", << >>)
    \/ \E ag \in AgentIds, via \in BOOLEAN : Start(ag, via)
    \/ \E ag \in AgentIds : Stop(ag)
    \/ \E ag \in AgentIds : Pause(ag)
    \/ StopAll
    \/ \E ag \in AgentIds : \E h \in 1..MaxCycles : TimerFires(ag, h)
    \/ \E ag \in AgentIds, n \in 1..MaxCycles : Observe(ag, n, "ok")
    \/ \E ag \in AgentIds, n \in 1..MaxCycles, resp \in RuntimeResponses :
          Think(ag, n, resp, "none")
    \/ \E ag \in AgentIds, n \in 1..MaxCycles, f \in RuntimeFaults :
          Act(ag, n, "returns", f)

SpecRuntime == InitOrchestrator /\ [][NextRuntime]_vars

(* C18: at most one Observe-Think-Act-Remember cycle of an agent is in
   progress at any time, whatever the order of start, stop, pause, timer
   ticks and the cycle's own steps. *)
C18_SingleFlight ==
    \A ag \in DOMAIN agents : CyclesInFlight(agents[ag]) <= 1

StartedEvents(agentId) ==
    { i \in 1..Len(events) : events[i] = AgentEvent("agent:started", agentId) }

ErrorEvents(agentId) ==
    { i \in 1..Len(events) : events[i] = AgentEvent("agent:error", agentId) }

(* C19: a step in which a cycle throws sets status error, logs agent:error
   and schedules no timer, and on an agent in status error no cycle begins
   except by a call of start(). *)
C19_FailStop ==
    [][ \A ag \in DOMAIN agents :
          /\ Cardinality(ErrorEvents(ag))' > Cardinality(ErrorEvents(ag))
             => /\ configs'[ag].status = "error"
                /\ agents'[ag].timers = agents[ag].timers
          /\ (configs[ag].status = "error" /\ agents'[ag].cycle > agents[ag].cycle)
             => agents'[ag].lifecycle = Append(agents[ag].lifecycle, "start") ]_vars

(* The part of C19 the code does keep: the throw sets status error and logs
   exactly one agent:error event. *)
C19_ErrorReported ==
    [][ \A ag \in DOMAIN agents :
          Cardinality(ErrorEvents(ag))' > Cardinality(ErrorEvents(ag))
          => /\ configs'[ag].status = "error"
             /\ events' = Append(events, AgentEvent("agent:error", ag)) ]_vars

(* C20: a call of start() on a runtime that is already running begins no
   cycle, sets no timer, logs no event and leaves a status of running as it
   is. *)
C20_StartIdempotent ==
    [][ \A ag \in DOMAIN agents :
          (agents[ag].running /\ agents'[ag].lifecycle = Append(agents[ag].lifecycle, "start"))
          => /\ agents'[ag] = [ agents[ag] EXCEPT !.lifecycle = Append(@, "start") ]
             /\ events' = events
             /\ configs[ag].status = "running" => configs' = configs
             /\ configs'[ag].status \in { configs[ag].status, "running" } ]_vars

C20_Witness ==
    \E ag \in DOMAIN agents :
       /\ agents[ag].lifecycle = << "start", "start" >>
       /\ agents[ag].running
       /\ configs[ag].status = "running"
       /\ Cardinality(StartedEvents(ag)) = 1
       /\ agents[ag].cycle = 1
       /\ CyclesInFlight(agents[ag]) + Cardinality(agents[ag].timers) = 1

DecisionEvents(agentId) ==
    { i \in 1..Len(events) : events[i] = AgentEvent("agent:decision", agentId) }

StopOrPause(ag) ==
    \E op \in { "stop", "pause" } :
       agents'[ag].lifecycle = Append(agents[ag].lifecycle, op)

(* A cycle of the agent settles in this step, and is logged as a decision
   or as an error. *)
SettlesLogged(ag) ==
    CyclesInFlight(agents'[ag]) < CyclesInFlight(agents[ag])
    => \E type \in { "agent:decision", "agent:error" } :
          events' = Append(events, AgentEvent(type, ag))

(* C21: stop() and pause() leave no tick of the agent pending and leave its
   cycles in flight as they are; such a cycle settles with its decision (or
   its error) logged and schedules nothing; no cycle begins on a stopped or
   paused agent except by a call of start(). *)
C21_StopCancelsTick ==
    [][ \A ag \in DOMAIN agents :
          /\ StopOrPause(ag)
             => /\ agents'[ag].timers = {}
                /\ agents'[ag].inflight = agents[ag].inflight
          /\ ~agents[ag].running
             => /\ SettlesLogged(ag)
                /\ agents'[ag].timers \subseteq agents[ag].timers
                /\ agents'[ag].cycle > agents[ag].cycle
                   => agents'[ag].lifecycle = Append(agents[ag].lifecycle, "start") ]_vars

(* What the code keeps of C21: the tick whose handle is in loopTimer is
   cancelled, cycles in flight are not touched and settle logged, and no
   cycle begins without start(). *)
C21_NoCycleAfterStop ==
    [][ \A ag \in DOMAIN agents :
          /\ StopOrPause(ag)
             => /\ agents'[ag].timers = agents[ag].timers \ { agents[ag].loopTimer }
                /\ agents'[ag].inflight = agents[ag].inflight
          /\ ~agents[ag].running
             => /\ SettlesLogged(ag)
                /\ agents'[ag].timers \subseteq agents[ag].timers
                /\ agents'[ag].cycle > agents[ag].cycle
                   => agents'[ag].lifecycle = Append(agents[ag].lifecycle, "start") ]_vars

(* C22: start() and then stop() before any tick was scheduled: no cycle has
   begun or been logged, and the status is stopped. *)
C22_StartStopRunsNothing ==
    \A ag \in DOMAIN agents :
       (agents[ag].lifecycle = << "start", "stop" >> /\ agents[ag].handles = 0)
       => /\ agents[ag].cycle = 0
          /\ CyclesInFlight(agents[ag]) = 0
          /\ DecisionEvents(ag) = {}
          /\ configs[ag].status = "stopped"

-----------------------------------------------------------------------------
(* One cycle after another of a started agent, with every kind of LLM
   response, skill outcome and remember fault. *)
CycleResponses ==
    { Rejects,
      Response("", << >>),
      Response("why", << "swap" >>),
      Response("why", << "transfer", "swap" >>),
      Response("", << "teleport" >>) }
CycleFaults == { "none", "logEvent", "addMemory" }

NotStarted(agentId) == agentId \in DOMAIN agents /\ agents[agentId].lifecycle = << >>

NextCycle ==
    \/ CreateAgent("agent-1", << >>)
    \/ NotStarted("agent-1") /\ Start("agent-1", TRUE)
    \/ \E h \in 1..MaxCycles : TimerFires("agent-1", h)
    \/ \E n \in 1..MaxCycles : Observe("agent-1", n, "ok")
    \/ \E n \in 1..MaxCycles, resp \in CycleResponses, f \in CycleFaults :
          Think("agent-1", n, resp, f)
    \/ \E n \in 1..MaxCycles, o \in SkillOutcomes, f \in CycleFaults :
          Act("agent-1", n, o, f)

SpecCycle == InitOrchestrator /\ [][NextCycle]_vars

Answers(r, step) == { i \in 1..Len(r.inputs) : r.inputs[i].step = step }
Thought(r, n) ==
    { r.inputs[i].answer : i \in { j \in Answers(r, "think") : r.inputs[j].n = n } }
DispatchedIn(r, n) == { i \in 1..Len(r.dispatched) : r.dispatched[i][1] = n }

(* C23: of the tool calls the LLM returned for a cycle, the first and only
   the first is handed to the Skill Registry, and the decision names that
   action and its outcome; with no tool call nothing is dispatched and the
   outcome is the fixed no-action string; the reasoning is the response's
   text. *)
C23_OneSkillPerCycle ==
    \A ag \in DOMAIN agents :
       LET r == agents[ag]
       IN  /\ \A n \in 1..r.cycle : \A resp \in Thought(r, n) :
                IF resp.rejects \/ resp.toolCalls = << >>
                THEN DispatchedIn(r, n) = {}
                ELSE /\ Cardinality(DispatchedIn(r, n)) = 1
                     /\ \A i \in DispatchedIn(r, n) :
                           r.dispatched[i] = << n, resp.toolCalls[1] >>
           /\ \A n \in 1..r.cycle : Thought(r, n) = {} => DispatchedIn(r, n) = {}
           /\ \A i \in 1..Len(r.decisions) :
                LET d == r.decisions[i]
                IN  \A resp \in Thought(r, d.cycle) :
                       /\ ~resp.rejects
                       /\ resp.content # "" => d.reasoning = resp.content
                       /\ IF resp.toolCalls = << >>
                          THEN d.action = "" /\ d.outcome = NoAction
                          ELSE /\ d.action = resp.toolCalls[1]
                               /\ Len(d.outcome) = 2
                               /\ d.outcome[2] = resp.toolCalls[1]

C23_Witness ==
    \E ag \in DOMAIN agents :
       LET r == agents[ag]
       IN  /\ Thought(r, 1) = { Response("why", << "transfer", "swap" >>) }
           /\ r.dispatched = << << 1, "transfer" >> >>
           /\ Len(r.decisions) = 1
           /\ r.decisions[1] = [ cycle |-> 1, reasoning |-> "why", action |-> "transfer",
                                 outcome |-> << "result of", "transfer" >> ]

(* The skill of a cycle resolved in this step and remember met no fault. *)
ActAnswered(ag) ==
    /\ Len(agents'[ag].inputs) = Len(agents[ag].inputs) + 1
    /\ Last(agents'[ag].inputs).step = "act"
    /\ Last(agents'[ag].inputs).fault = "none"

(* C24: whatever the chosen skill did (an unknown name, a skill that threw,
   a skill that returned), the cycle goes on to remember: the decision is
   logged with an error string as its outcome for the first two, the status
   is not changed and the next tick is scheduled. *)
C24_SkillFailureIsAnOutcome ==
    [][ \A ag \in DOMAIN agents :
          ActAnswered(ag)
          => LET r == agents[ag]
                 x == Last(agents'[ag].inputs)
             IN  \E c \in r.inflight :
                    /\ c.n = x.n
                    /\ agents'[ag].decisions =
                          Append(r.decisions,
                                 [ cycle |-> r.cycle, reasoning |-> c.reasoning,
                                   action |-> c.action,
                                   outcome |-> << IF c.action \notin RegisteredSkills
                                                  THEN "Error: Unknown skill"
                                                  ELSE IF x.answer = "throws"
                                                  THEN "Error executing skill"
                                                  ELSE "result of", c.action >> ])
                    /\ configs'[ag].status = configs[ag].status
                    /\ events' = Append(events, AgentEvent("agent:decision", ag))
                    /\ r.running => agents'[ag].timers = r.timers \cup { r.handles + 1 } ]_vars

C24_Witness ==
    \E ag \in DOMAIN agents :
       LET r == agents[ag]
       IN  /\ Len(r.decisions) = 2
           /\ r.decisions[1].outcome = << "Error: Unknown skill", "teleport" >>
           /\ r.decisions[2].outcome = << "Error executing skill", "swap" >>
           /\ configs[ag].status = "running"
           /\ ErrorEvents(ag) = {}
           /\ r.timers # {}

StatusEdges ==
    { << "idle", "running" >>, << "running", "paused" >>, << "paused", "running" >>,
      << "running", "stopped" >>, << "paused", "stopped" >>, << "idle", "stopped" >>,
      << "running", "error" >> }

(* C25: the status of an agent changes only along idle -> running,
   running <-> paused, running / paused / idle -> stopped, running -> error. *)
C25_StatusMachine ==
    [][ \A ag \in DOMAIN configs :
          \/ configs'[ag].status = configs[ag].status
          \/ << configs[ag].status, configs'[ag].status >> \in StatusEdges ]_vars

(* The status changes the code makes outside those edges, each reached. *)
StatusChanges ==
    { << "idle", "paused" >>, << "stopped", "running" >>, << "stopped", "paused" >>,
      << "error", "stopped" >>, << "error", "paused" >>, << "error", "running" >>,
      << "stopped", "error" >>, << "paused", "error" >> }

C25_OtherEdges ==
    [][ \A ag \in DOMAIN configs :
          \/ configs'[ag].status = configs[ag].status
          \/ << configs[ag].status, configs'[ag].status >> \in StatusEdges \cup StatusChanges ]_vars

-----------------------------------------------------------------------------
(* MemoryStore on its own: addMemory called for two agents, up to past the
   cap.  The entry of a call carries the call's ordinal as its cycle. *)
MaxAdds == 101

MemoryEntry(k) == [ cycle |-> k, reasoning |-> "r", action |-> "", outcome |-> NoAction ]

Adds(agentId) == IF agentId \in DOMAIN added THEN Len(added[agentId]) ELSE 0

AddMemoryCall(agentId) ==
    /\ Adds(agentId) < MaxAdds
    /\ memory' = AddMemory(memory, agentId, MemoryEntry(Adds(agentId) + 1))
    /\ added' = Handed(added, agentId, MemoryEntry(Adds(agentId) + 1))
    /\ UNCHANGED << now, ticks, config, windows, att, txLog, events, calls, ret,
                    configs, agents, listeners, delivered >>

NextMemory == \E ag \in AgentIds : AddMemoryCall(ag)

SpecMemory == InitOrchestrator /\ [][NextMemory]_vars

(* C26: an agent's stored memory is the last min(n, 100) of the n entries
   added for it, in the order they were added; an agent nothing was added
   for has none. *)
C26_MemoryCapped ==
    /\ DOMAIN memory = DOMAIN added
    /\ \A ag \in DOMAIN added :
          LET h == added[ag]
              n == Len(h)
              k == IF n < 100 THEN n ELSE 100
          IN  /\ Len(memory[ag]) = k
              /\ \A i \in 1..k : memory[ag][i] = h[n - k + i]

C26_Witness ==
    /\ DOMAIN added = AgentIds
    /\ Len(added["agent-1"]) = 101
    /\ Len(memory["agent-1"]) = 100
    /\ memory["agent-1"][1].cycle = 2
    /\ memory["agent-1"][100].cycle = 101
    /\ Len(added["agent-2"]) = 3
    /\ memory["agent-2"] = added["agent-2"]

-----------------------------------------------------------------------------
(* Orchestrator.startAgent / stopAgent / pauseAgent / stopAll over two agents *)

OrchestratorOps == { "startAgent", "stopAgent", "pauseAgent" }

(* Variant: an unknown id is passed over in silence *)
AgentNotFoundSilent(op, agentId) == [ op |-> op, agentId |-> agentId, error |-> << >> ]

(* throw new Error(`Agent not found: ${agentId}`) *)
AgentNotFound(op, agentId) ==
    [ op |-> op, agentId |-> agentId, error |-> << "Agent not found: ", agentId >> ]

(* getAgent(id).status and the runtime's getStatus() *)
GetAgent(agentId) == configs[agentId]
GetStatus(r) == configs[r.config].status

(* The wrapper looks the runtime up, throws when there is none, calls the
   runtime's method and writes the status into the stored config. *)
OrchestratorCall(op, agentId) ==
    IF agentId \notin DOMAIN agents
    THEN /\ ret' = AgentNotFound(op, agentId)
         /\ UNCHANGED << now, ticks, config, windows, att, txLog, events, calls,
                         configs, agents, memory, added, listeners, delivered >>
    ELSE CASE op = "startAgent" -> Start(agentId, TRUE)
           [] op = "stopAgent" -> Stop(agentId)
           [] op = "pauseAgent" -> Pause(agentId)

FleetResponses == { Rejects, Response("hold", << >>) }

(* The wrappers called with any id, known or not, on one agent in every
   state of its loop. *)
NextWrappers ==
    \/ CreateAgent("agent-1", << >>)
    \/ \E op \in OrchestratorOps, ag \in AgentIds : OrchestratorCall(op, ag)
    \/ \E h \in 1..MaxCycles : TimerFires("agent-1", h)
    \/ \E n \in 1..MaxCycles : Observe("agent-1", n, "ok")
    \/ \E n \in 1..MaxCycles, resp \in FleetResponses : Think("agent-1", n, resp, "none")

SpecWrappers == InitOrchestrator /\ [][NextWrappers]_vars

(* Two agents started, paused and stopped through the orchestrator, their
   loops running, and stopAll; the wrapper calls leave room for one stopAll
   within the bound. *)
RoomForStopAll == LifecycleCalls < MaxLifecycle - 1

NextFleet ==
    \/ \E ag \in AgentIds : NextAgentId(ag) /\ CreateAgent(ag, << >>)
    \/ \E op \in OrchestratorOps, ag \in AgentIds :
          ag \in DOMAIN agents /\ RoomForStopAll /\ OrchestratorCall(op, ag)
    \/ StopAll
    \/ \E ag \in AgentIds : \E h \in 1..MaxCycles : TimerFires(ag, h)
    \/ \E ag \in AgentIds, n \in 1..MaxCycles : Observe(ag, n, "ok")
    \/ \E ag \in AgentIds, n \in 1..MaxCycles, resp \in FleetResponses :
          Think(ag, n, resp, "none")

SpecFleet == InitOrchestrator /\ [][NextFleet]_vars

StatusAfter(op) ==
    CASE op = "start" -> "running" [] op = "stop" -> "stopped" [] op = "pause" -> "paused"

(* C27: after startAgent, stopAgent or pauseAgent on a known agent the
   stored config and the runtime report the same status, the one the call
   asked for, whatever state the runtime was in; with an unknown id the call
   throws 'Agent not found' and no agent, config or log changes. *)
C27_WrappersMirror ==
    [][ /\ \A ag \in DOMAIN agents :
             /\ GetAgent(ag).status = GetStatus(agents[ag])
             /\ \A op \in { "start", "stop", "pause" } :
                   agents'[ag].lifecycle = Append(agents[ag].lifecycle, op)
                   => /\ GetAgent(ag)'.status = StatusAfter(op)
                      /\ GetStatus(agents[ag])' = StatusAfter(op)
        /\ ret' # ret
           => /\ ret'.op \in OrchestratorOps
              /\ ret'.agentId \notin DOMAIN agents
              /\ ret'.error = << "Agent not found: ", ret'.agentId >>
              /\ UNCHANGED << agents, configs, events, memory >> ]_vars

C27_Witness ==
    /\ ret = AgentNotFound("pauseAgent", "agent-2")
    /\ "agent-1" \in DOMAIN agents
    /\ ErrorEvents("agent-1") # {}
    /\ Last(agents["agent-1"].lifecycle) = "start"
    /\ agents["agent-1"].running
    /\ GetAgent("agent-1").status = "running"
    /\ GetStatus(agents["agent-1"]) = "running"

(* A step of stopAll: every registered agent is stopped in the one step. *)
StopAllStep ==
    /\ DOMAIN agents # {}
    /\ \A ag \in DOMAIN agents : agents'[ag].lifecycle = Append(agents[ag].lifecycle, "stop")

(* C28: when stopAll returns every registered agent has status stopped and
   no agent has a scheduled tick pending, whatever the agents were doing
   before. *)
C28_StopAllLeavesNoTimer ==
    [][ StopAllStep
        => \A ag \in DOMAIN agents :
              /\ GetAgent(ag)'.status = "stopped"
              /\ agents'[ag].timers = {} ]_vars

(* What stopAll does achieve: every status is stopped, every loop is told to
   end and the timer each runtime still holds a handle of is cancelled. *)
C28_StopAllStopsLoops ==
    [][ StopAllStep
        => \A ag \in DOMAIN agents :
              /\ GetAgent(ag)'.status = "stopped"
              /\ ~ agents'[ag].running
              /\ agents'[ag].timers = agents[ag].timers \ { agents[ag].loopTimer } ]_vars

(* ---------------------------------------------------------------- *)
(* AuditLogger: logEvent and onEvent                                 *)
(* ---------------------------------------------------------------- *)

Listeners == { "l1", "l2", "l3" }
MaxListeners == 3
MaxEvents == 2

(* The n-th event handed to logEvent *)
KarenEvent(n) == [ type |-> "agent:decision", agentId |-> "agent-1", data |-> n ]

(* What a listener does when it is called: return, throw, or call the
   unsubscribe function of a listener (its own or another's) and return *)
Returns == [ does |-> "returns", whom |-> "" ]
Throws == [ does |-> "throws", whom |-> "" ]
Unsubscribes(l) == [ does |-> "unsubscribes", whom |-> l ]
ListenerBehaviours == { Returns, Throws } \cup { Unsubscribes(l) : l \in Listeners }

(* Variant: no try/catch around the listener call *)
PropagateListenerError(threw) == threw

(* try { listener(event) } catch { } *)
CatchListenerError(threw) == FALSE

(* this.listeners.filter((l) => l !== listener): a new array *)
Unsubscribed(array, l) == SelectSeq(array, LAMBDA x : x # l)

(* for (const listener of this.listeners), over the array the loop began
   with; st carries this.listeners, the calls made and whether an exception
   has left the loop *)
RECURSIVE Notify(_, _, _, _, _)
Notify(array, i, event, behaviour, st) ==
    IF i > Len(array) \/ st.threw
    THEN st
    ELSE LET l == array[i]
             b == behaviour[l]
             called == [ st EXCEPT !.delivered =
                            Append(@, [ listener |-> l, event |-> event ]) ]
             ran == IF b.does = "unsubscribes"
                    THEN [ called EXCEPT !.listeners.array = Unsubscribed(@, b.whom) ]
                    ELSE called
         IN  Notify(array, i + 1, event, behaviour,
                    [ ran EXCEPT !.threw = CatchListenerError(b.does = "throws") ])

LoggerCall(op, l, behaviour, threw) ==
    [ op |-> op, listener |-> l, behaviour |-> behaviour, threw |-> threw ]

Quiet == [ l \in Listeners |-> Returns ]

(* logEvent(event): append the line to events.jsonl, then notify *)
LogEvent(behaviour) ==
    /\ Len(events) < MaxEvents
    /\ \A l \in Listeners :
          /\ l \notin Range(listeners.array) => behaviour[l] = Returns
          /\ behaviour[l].does = "unsubscribes" => behaviour[l].whom \in listeners.unsubscribe
    /\ LET event == KarenEvent(Len(events) + 1)
           st == Notify(listeners.array, 1, event, behaviour,
                        [ listeners |-> listeners, delivered |-> delivered, threw |-> FALSE ])
       IN  /\ events' = Append(events, event)
           /\ listeners' = st.listeners
           /\ delivered' = st.delivered
           /\ ret' = LoggerCall("logEvent", "", behaviour, st.threw)
    /\ UNCHANGED << now, ticks, config, windows, att, txLog, calls, configs, agents,
                    memory, added >>

(* onEvent(listener): push, and return the function that unsubscribes it *)
OnEvent(l) ==
    /\ listeners.pushed < MaxListeners
    /\ listeners' = [ array |-> Append(listeners.array, l),
                      unsubscribe |-> listeners.unsubscribe \cup { l },
                      pushed |-> listeners.pushed + 1 ]
    /\ ret' = LoggerCall("onEvent", l, Quiet, FALSE)
    /\ UNCHANGED << now, ticks, config, windows, att, txLog, events, calls, configs,
                    agents, memory, added, delivered >>

(* a call, outside logEvent, of the function onEvent returned for l *)
Unsubscribe(l) ==
    /\ l \in listeners.unsubscribe
    /\ listeners' = [ listeners EXCEPT !.array = Unsubscribed(@, l) ]
    /\ ret' = LoggerCall("unsubscribe", l, Quiet, FALSE)
    /\ UNCHANGED << now, ticks, config, windows, att, txLog, events, calls, configs,
                    agents, memory, added, delivered >>

(* Listeners are interchangeable: a listener not seen before is taken in
   the order l1, l2, l3. *)
ListenerOrder == << "l1", "l2", "l3" >>
NextListener(l) ==
    \E i \in 1..Len(ListenerOrder) :
       /\ ListenerOrder[i] = l
       /\ \A j \in 1..(i - 1) : ListenerOrder[j] \in listeners.unsubscribe

NextLogger ==
    \/ \E behaviour \in [ Listeners -> ListenerBehaviours ] : LogEvent(behaviour)
    \/ \E l \in Listeners : NextListener(l) /\ OnEvent(l)
    \/ \E l \in Listeners : Unsubscribe(l)

SpecLogger == InitOrchestrator /\ [][NextLogger]_vars

Registrations(array, l) == Cardinality({ i \in 1..Len(array) : array[i] = l })
DeliveriesIn(calls_, l, event) ==
    Cardinality({ i \in 1..Len(calls_) :
                    calls_[i] = [ listener |-> l, event |-> event ] })
Deliveries(l, event) == DeliveriesIn(delivered, l, event)

(* C29: a call of logEvent persists the event, calls every listener once
   for each of its registrations at the time of the call, also when other
   listeners throw, calls no listener that is not registered then, and
   returns without throwing; the unsubscribe function of a listener leaves
   none of its registrations in the array, so no event logged after it has
   been called reaches that listener. *)
C29_ListenersDoNotAffectWriter ==
    [][ /\ events' # events
           => /\ events' = Append(events, KarenEvent(Len(events) + 1))
              /\ ret'.op = "logEvent"
              /\ ~ ret'.threw
              /\ IsPrefix(delivered, delivered')
              /\ \A i \in (Len(delivered) + 1)..Len(delivered') :
                    delivered'[i].event = Last(events')
              /\ \A l \in Listeners :
                    DeliveriesIn(delivered', l, Last(events')) = Registrations(listeners.array, l)
        /\ events' = events => delivered' = delivered
        /\ (ret'.op = "unsubscribe" /\ (ret' # ret \/ listeners' # listeners))
           => ret'.listener \notin Range(listeners'.array)
        /\ \A l \in Listeners :
              (ret'.op = "logEvent" /\ events' # events
                 /\ \E m \in Range(listeners.array) : ret'.behaviour[m] = Unsubscribes(l))
              => l \notin Range(listeners'.array) ]_vars

(* Two events logged: a listener was unsubscribed after the first and was not
   called with the second; during the second a listener threw, and a
   listener registered behind it was called all the same. *)
C29_Witness ==
    /\ Len(events) = 2
    /\ ret.op = "logEvent"
    /\ \E k \in listeners.unsubscribe :
          /\ k \notin Range(listeners.array)
          /\ Deliveries(k, events[1]) = 1
          /\ Deliveries(k, events[2]) = 0
    /\ \E i, j \in 1..Len(delivered) :
          /\ i < j
          /\ delivered[i].event = events[2]
          /\ delivered[j].event = events[2]
          /\ ret.behaviour[delivered[i].listener] = Throws
          /\ delivered[j].listener # delivered[i].listener

(* C30 as stated: in every state every timestamp of every account lies within
   the 5 minutes before the current time. *)
C30_AlwaysPruned ==
    \A w \in DOMAIN windows :
       \A ts \in Range(windows[w].timestamps) : ts > now - TrimMs

(* C30 amended: the list is pruned by recordTransaction only.  In every state
   the timestamps of an account lie within the 5 minutes before the last
   recordTransaction on that account, whose time is the last element of the
   list, and that time is not after the current time. *)
C30_PrunedAtRecord ==
    /\ \A w \in DOMAIN windows :
          LET stamps == windows[w].timestamps
          IN  stamps # << >>
              => /\ Last(stamps) <= now
                 /\ \A ts \in Range(stamps) :
                       ts > Last(stamps) - TrimMs /\ ts <= Last(stamps)
    /\ ret.op = "recordTransaction"
       => Last(windows[ret.walletId].timestamps) = ret.at

(* A recordTransaction dropped a timestamp that had gone stale while no call
   was made. *)
C30_Witness ==
    /\ ret.op = "recordTransaction"
    /\ ret.walletId \in DOMAIN ret.before
    /\ \E ts \in Range(ret.before[ret.walletId].timestamps) : ts <= ret.at - TrimMs
    /\ windows[ret.walletId].timestamps = << ret.at >>
    /\ now = ret.at


(* C31: a call of start() on an agent in status error sets the status to
   running, logs agent:started and begins a cycle; in a step on an agent in
   status error that is no lifecycle call the status stays error and no cycle
   begins. *)
C31_ErrorUntilRestart ==
    [][ \A ag \in DOMAIN agents :
          configs[ag].status = "error"
          => /\ agents'[ag].lifecycle = Append(agents[ag].lifecycle, "start")
                => /\ configs'[ag].status = "running"
                   /\ Cardinality(StartedEvents(ag))' = Cardinality(StartedEvents(ag)) + 1
                   /\ agents'[ag].cycle = agents[ag].cycle + 1
             /\ agents'[ag].lifecycle = agents[ag].lifecycle
                => /\ configs'[ag].status = "error"
                   /\ agents'[ag].cycle = agents[ag].cycle ]_vars

(* The half of C31 that holds when taken alone: start() on an agent in status
   error whose running flag is false (stop() or pause() was called before the
   cycle threw) restarts it. *)
C31_RestartWhenNotRunning ==
    [][ \A ag \in DOMAIN agents :
          ( /\ configs[ag].status = "error"
            /\ ~ agents[ag].running
            /\ agents'[ag].lifecycle = Append(agents[ag].lifecycle, "start") )
          => /\ configs'[ag].status = "running"
             /\ Cardinality(StartedEvents(ag))' = Cardinality(StartedEvents(ag)) + 1
             /\ agents'[ag].cycle = agents[ag].cycle + 1 ]_vars

(* C32: the decision records of an agent carry strictly increasing cycle
   numbers, and so do its memory entries; no two records of an agent share a
   cycle number. *)
C32_CycleNumbersIncrease ==
    \A ag \in DOMAIN agents :
       /\ \A i, j \in 1..Len(agents[ag].decisions) :
             i < j => agents[ag].decisions[i].cycle < agents[ag].decisions[j].cycle
       /\ \A i, j \in 1..Len(GetMemories(memory, ag)) :
             i < j => GetMemories(memory, ag)[i].cycle < GetMemories(memory, ag)[j].cycle

(* What holds under every interleaving: a cycle that settles without an
   exception logs one decision and one decision event, stores one memory
   entry equal to it, numbers both with the cycle counter as it stands when
   the cycle settles, and arms a tick exactly when the agent is running. *)
C32_OneRecordPerSettledCycle ==
    [][ \A ag \in DOMAIN agents :
          ( /\ Cardinality(DecisionEvents(ag))' > Cardinality(DecisionEvents(ag))
            /\ Cardinality(ErrorEvents(ag))' = Cardinality(ErrorEvents(ag)) )
          => LET r == agents[ag]
                 d == Last(agents'[ag].decisions)
             IN  /\ agents'[ag].decisions = Append(r.decisions, d)
                 /\ d.cycle = r.cycle
                 /\ events' = Append(events, AgentEvent("agent:decision", ag))
                 /\ GetMemories(memory, ag)' = Append(GetMemories(memory, ag), d)
                 /\ agents'[ag].timers =
                       IF r.running THEN r.timers \cup { r.handles + 1 } ELSE r.timers ]_vars

(* ---------------------------------------------------------------- *)
(* A started agent whose observe step may fail                       *)
(* ---------------------------------------------------------------- *)
ObserveResponses == { Response("hold", << >>), Response("send", << "transfer" >>) }

NextObserve ==
    \/ CreateAgent("agent-1", << >>)
    \/ NotStarted("agent-1") /\ Start("agent-1", TRUE)
    \/ \E h \in 1..MaxCycles : TimerFires("agent-1", h)
    \/ \E n \in 1..MaxCycles, o \in ObserveOutcomes : Observe("agent-1", n, o)
    \/ \E n \in 1..MaxCycles, resp \in ObserveResponses : Think("agent-1", n, resp, "none")
    \/ \E n \in 1..MaxCycles, o \in SkillOutcomes : Act("agent-1", n, o, "none")

SpecObserve == InitOrchestrator /\ [][NextObserve]_vars

(* The step answered think or act of a cycle that had observed an error. *)
AnsweredAfterFailedObserve(ag, step) ==
    /\ Len(agents'[ag].inputs) = Len(agents[ag].inputs) + 1
    /\ Last(agents'[ag].inputs).step = step
    /\ Last(agents'[ag].inputs).observations.error # << >>

DecisionLoggedAndTickArmed(ag) ==
    /\ Len(agents'[ag].decisions) = Len(agents[ag].decisions) + 1
    /\ events' = Append(events, AgentEvent("agent:decision", ag))
    /\ configs'[ag].status = configs[ag].status
    /\ agents[ag].running
       => agents'[ag].timers = agents[ag].timers \cup { agents[ag].handles + 1 }

(* C33: a cycle leaves observe only into think, with the observation
   observe returned (on a failure one that carries the error and none of
   the wallet state), and that step changes neither the status nor the
   event log; think is then called with that observation, the skill it
   chooses is executed, the decision is logged, the status is left as it
   is and the next tick is armed when the agent is running. *)
C33_ObserveFailureContinues ==
    [][ \A ag \in DOMAIN agents :
          /\ \A c \in agents[ag].inflight :
                (c.pc = "observe" /\ c \notin agents'[ag].inflight)
                => /\ \E o \in ObserveOutcomes :
                         [ c EXCEPT !.pc = "think",
                                    !.observations = Observations(o, agents[ag].cycle) ]
                            \in agents'[ag].inflight
                   /\ configs' = configs
                   /\ events' = events
                   /\ agents'[ag].timers = agents[ag].timers
          /\ AnsweredAfterFailedObserve(ag, "think")
             => LET x == Last(agents'[ag].inputs)
                IN  /\ x.observations.state = ""
                    /\ IF x.answer.toolCalls = << >>
                       THEN DecisionLoggedAndTickArmed(ag)
                       ELSE /\ agents'[ag].dispatched =
                                  Append(agents[ag].dispatched, << x.n, x.answer.toolCalls[1] >>)
                            /\ configs' = configs
                            /\ \E c \in agents'[ag].inflight :
                                  c.n = x.n /\ c.pc = "act" /\ c.observations = x.observations
          /\ AnsweredAfterFailedObserve(ag, "act") => DecisionLoggedAndTickArmed(ag) ]_vars

(* Two cycles have run after failed observations, one for each kind of
   failure: the first took no action, the second executed a transfer; both
   decisions are logged, the status is running and a tick is pending. *)
C33_Witness ==
    \E ag \in DOMAIN agents :
       LET r == agents[ag]
       IN  /\ Len(r.decisions) = 2
           /\ r.decisions[1].action = ""
           /\ r.decisions[2].action = "transfer"
           /\ { r.inputs[i].observations.error : i \in 1..Len(r.inputs) }
                 = { << "Failed to observe: ", "unknown wallet" >>,
                     << "Failed to observe: ", "balance query fails" >> }
           /\ configs[ag].status = "running"
           /\ ErrorEvents(ag) = {}
           /\ r.timers # {}

(* ---------------------------------------------------------------- *)
(* Two agents, the first suspended in its call of the reasoning      *)
(* service for ever                                                  *)
(* ---------------------------------------------------------------- *)

(* Variant: the external calls are synchronous, so that nothing of an agent
   runs while a cycle of another agent is waiting *)
BlocksOthers(agentId) ==
    \A other \in DOMAIN agents \ { agentId } : agents[other].inflight = {}

(* await: a cycle that waits for observe, llm.chat or a skill gives the
   event loop back, and the callbacks of any agent can run *)
Yields(agentId) == TRUE

(* The calls on the second agent leave one call within the bound for the
   start of the first. *)
RoomForFirstStart == LifecycleCalls < MaxLifecycle - 1

NextIndependent ==
    \/ \E ag \in AgentIds : NextAgentId(ag) /\ CreateAgent(ag, << >>)
    \/ NotStarted("agent-1") /\ Start("agent-1", TRUE)
    \/ \E op \in OrchestratorOps :
          /\ "agent-2" \in DOMAIN agents
          /\ Yields("agent-2")
          /\ RoomForFirstStart
          /\ OrchestratorCall(op, "agent-2")
    \/ \E h \in 1..MaxCycles : Yields("agent-2") /\ TimerFires("agent-2", h)
    \/ \E ag \in AgentIds, n \in 1..MaxCycles : Yields(ag) /\ Observe(ag, n, "ok")
    \/ \E n \in 1..MaxCycles, resp \in FleetResponses :
          Yields("agent-2") /\ Think("agent-2", n, resp, "none")

(* Timers fire and the collaborators of the second agent answer *)
FairIndependent ==
    \A n \in 1..MaxCycles :
       /\ WF_vars(Yields("agent-2") /\ TimerFires("agent-2", n))
       /\ WF_vars(Yields("agent-2") /\ Observe("agent-2", n, "ok"))
       /\ WF_vars(\E resp \in FleetResponses :
                     Yields("agent-2") /\ Think("agent-2", n, resp, "none"))

SpecIndependent == InitOrchestrator /\ [][NextIndependent]_vars /\ FairIndependent

Suspended(agentId) == agentId \in DOMAIN agents /\ agents[agentId].inflight # {}
CycleInFlight(agentId, n) ==
    agentId \in DOMAIN agents /\ \E c \in agents[agentId].inflight : c.n = n
CycleSettled(agentId, n) ==
    agentId \in DOMAIN agents /\ n <= agents[agentId].cycle /\ ~ CycleInFlight(agentId, n)
TimerPending(agentId, h) == agentId \in DOMAIN agents /\ h \in agents[agentId].timers

(* C34: while the first agent waits for a reasoning service that never
   answers, every cycle the second agent begins settles, in a step that arms
   its next tick when the agent is running; every tick of the second agent
   fires or is cancelled, unless the bound on cycles is used up; and
   startAgent, stopAgent and pauseAgent on the second agent set its running
   flag and its status at once. *)
C34_LoopsIndependent ==
    /\ \A n \in 1..MaxCycles :
          (Suspended("agent-1") /\ CycleInFlight("agent-2", n))
             ~> (Suspended("agent-1") /\ CycleSettled("agent-2", n))
    /\ \A h \in 1..MaxCycles :
          (Suspended("agent-1") /\ TimerPending("agent-2", h))
             ~> (~ TimerPending("agent-2", h) \/ CyclesBegun >= MaxCycles)
    /\ [][ "agent-2" \in DOMAIN agents
           => LET r == agents["agent-2"]
              IN  /\ CyclesInFlight(agents'["agent-2"]) < CyclesInFlight(r)
                     => agents'["agent-2"].timers =
                           IF r.running THEN r.timers \cup { r.handles + 1 } ELSE r.timers
                  /\ \A op \in { "start", "stop", "pause" } :
                        agents'["agent-2"].lifecycle = Append(r.lifecycle, op)
                        => /\ agents'["agent-2"].running = (op = "start")
                           /\ configs'["agent-2"].status = StatusAfter(op) ]_vars

(* The first agent is still waiting for its first answer while the second
   has settled a cycle, armed its tick and was then paused. *)
C34_Witness ==
    /\ Suspended("agent-1")
    /\ "agent-2" \in DOMAIN agents
    /\ agents["agent-1"].decisions = << >>
    /\ agents["agent-2"].lifecycle = << "start", "pause" >>
    /\ Len(agents["agent-2"].decisions) = 1
    /\ agents["agent-2"].handles = 1
    /\ agents["agent-2"].timers = {}
    /\ configs["agent-2"].status = "paused"

(* ---------------------------------------------------------------- *)
(* Guardrails.getConfig and updateConfig, beside transfers in flight *)
(* ---------------------------------------------------------------- *)

(* The updates handed to updateConfig *)
ConfigUpdates ==
    { [ maxSolPerTransaction |-> 1 ],
      [ blockedAddresses |-> << GoodAddress >>, dailySpendingLimitSol |-> 2 ] }

(* The fields of a GuardrailConfig that hold an array: the object spread
   copies the reference, not the array *)
ArrayFields == { "allowedPrograms", "blockedAddresses" }

(* updateConfig(updates): this.config = { ...this.config, ...updates }.  The
   arrays of the fields that were replaced are no longer the ones a copy
   handed out earlier refers to. *)
UpdateConfig(updates) ==
    /\ config' = MergeConfig(config, updates)
    /\ config' # config
    /\ ret' = IF ret.op = "getConfig"
              THEN [ ret EXCEPT !.shares = @ \ DOMAIN updates ]
              ELSE ret
    /\ UNCHANGED << now, ticks, windows, att, txLog, events, calls, configs, agents,
                    memory, added, listeners, delivered >>

(* getConfig(): { ...this.config }, a new object whose array fields are the
   engine's own arrays *)
ShallowCopy(cfg) == [ op |-> "getConfig", copy |-> cfg, shares |-> ArrayFields ]

GetConfig ==
    /\ ret' = ShallowCopy(config)
    /\ ret' # ret
    /\ UNCHANGED << now, ticks, config, windows, att, txLog, events, calls, configs,
                    agents, memory, added, listeners, delivered >>

(* The caller assigns a field of the object getConfig returned. *)
AssignField(field, value) ==
    /\ ret.op = "getConfig"
    /\ ret.copy[field] # value
    /\ ret' = [ ret EXCEPT !.copy[field] = value, !.shares = @ \ { field } ]
    /\ UNCHANGED << now, ticks, config, windows, att, txLog, events, calls, configs,
                    agents, memory, added, listeners, delivered >>

(* The caller pushes onto an array of the object getConfig returned: the
   array is changed in place, for everyone who refers to it. *)
PushOnField(field, value) ==
    /\ ret.op = "getConfig"
    /\ field \in ArrayFields
    /\ value \notin Range(ret.copy[field])
    /\ ret' = [ ret EXCEPT !.copy[field] = Append(@, value) ]
    /\ config' = IF field \in ret.shares
                 THEN [ config EXCEPT ![field] = Append(@, value) ]
                 ELSE config
    /\ UNCHANGED << now, ticks, windows, att, txLog, events, calls, configs, agents,
                    memory, added, listeners, delivered >>

PushedValue(field) == IF field = "allowedPrograms" THEN UnknownProgram ELSE GoodAddress

NextConfig ==
    \/ \E a \in Attempts, to \in EngineAddresses, amt \in EngineAmounts :
          TransferSol(a, "w1", to, amt, NoFaults)
    \/ \E a \in Attempts : Resolve(a, "ok", NoFaults)
    \/ \E a \in Attempts, c \in BOOLEAN : Send(a, c, NoFaults)
    \/ \E u \in ConfigUpdates : UpdateConfig(u)
    \/ GetConfig
    \/ AssignField("maxSolPerTransaction", 100)
    \/ \E field \in ArrayFields : PushOnField(field, PushedValue(field))

SpecConfig == Init /\ [][NextConfig]_vars

CopyMutated ==
    ret.op = "getConfig" /\ ret'.op = "getConfig" /\ ret'.copy # ret.copy

(* An updateConfig step merges: the fields of the update take its values,
   the others keep theirs; it touches no window and no attempt. *)
UpdateMerges ==
    (config' # config /\ ~ CopyMutated)
    => /\ \E u \in ConfigUpdates :
             \A k \in DOMAIN config :
                config'[k] = IF k \in DOMAIN u THEN u[k] ELSE config[k]
       /\ windows' = windows
       /\ att' = att

(* A transfer that enters is judged by the config as it is at that moment;
   one that has passed validate is not judged again: on confirmation its
   amount is recorded whatever the config has become. *)
EvaluationsUseCurrentConfig ==
    \A a \in Attempts :
       /\ (att[a].pc = "idle" /\ att'[a].pc # "idle")
          => LET r == att'[a].record
                 v == Validate(config, windows, now, r.walletId, att'[a].amountSol,
                               att'[a].programIds, att'[a].destination)
             IN  /\ r.status = "blocked" <=> ~ v.allowed
                 /\ r.guardrailsApplied = v.guardrails
       /\ (att[a].pc = "send" /\ att'[a].record.status = "confirmed")
          => windows' = RecordTransaction(windows, now, att[a].record.walletId,
                                          att[a].amountSol)

(* C35: updateConfig merges and affects only the evaluations that start
   after it; an attempt waiting on the ledger is not validated again and
   records its spend on confirmation; and no change made to the object
   getConfig returned changes the engine's config. *)
C35_UpdateAffectsLaterOnly ==
    [][ /\ UpdateMerges
        /\ EvaluationsUseCurrentConfig
        /\ CopyMutated => config' = config ]_vars

(* What holds: everything but the last part, of which only this is true:
   assigning a field of the returned object leaves the engine's config
   alone, and so does a push onto an array the engine no longer refers
   to. *)
C35_UpdateAndAssignment ==
    [][ /\ UpdateMerges
        /\ EvaluationsUseCurrentConfig
        /\ (CopyMutated /\ config' # config)
           => \E field \in ArrayFields \cap ret.shares :
                 /\ Len(ret'.copy[field]) = Len(ret.copy[field]) + 1
                 /\ config' = [ config EXCEPT ![field] = ret'.copy[field] ] ]_vars

(* A transfer that passed validate was confirmed and recorded after an
   update under which it would have been denied. *)
C35_InFlightNotRevalidated ==
    \E a \in Attempts :
       /\ att[a].record.status = "confirmed"
       /\ att[a].recorded > 0
       /\ att[a].amountSol > config.maxSolPerTransaction

(* C36: an agent has at most one tick pending, and the handle in loopTimer
   is that tick's, so that stop() and pause() can cancel it. *)
C36_OneCancellableTimer ==
    \A ag \in DOMAIN agents :
       /\ Cardinality(agents[ag].timers) <= 1
       /\ agents[ag].timers \subseteq { agents[ag].loopTimer }

(* What holds under every interleaving: the handle in loopTimer is the one
   armed last, and the ticks pending are never more than the cycles that
   have settled while the agent was running. *)
C36_LoopTimerIsLatest ==
    \A ag \in DOMAIN agents :
       /\ agents[ag].loopTimer \in { 0, agents[ag].handles }
       /\ \A h \in agents[ag].timers : 1 <= h /\ h <= agents[ag].handles

(* The timestamps validate found that are less than 60s old, and those
   exactly 60s old *)
ProbedYounger ==
    { i \in 1..Len(ProbedWindow.timestamps) : ret.at - ProbedWindow.timestamps[i] < MinuteMs }
ProbedAtMinute ==
    { i \in 1..Len(ProbedWindow.timestamps) : ret.at - ProbedWindow.timestamps[i] = MinuteMs }

(* C37: validate lets the limit itself pass.  An amount equal to
   maxSolPerTransaction is not denied by the per-transaction rule; a
   timestamp exactly 60s old is not counted by the rate rule; a window start
   exactly 24h old is not reset; an amount that brings dailySpend exactly to
   dailySpendingLimitSol is not denied by the daily rule. *)
C37_InclusiveAtLimit ==
    Probed
    => /\ ret.amountSol = config.maxSolPerTransaction => ~ DeniedBy("max_per_tx")
       /\ (ret.amountSol <= config.maxSolPerTransaction /\ ProbedAtMinute # {})
          => ( DeniedBy("rate_limit")
                 <=> Cardinality(ProbedYounger) >= config.maxTransactionsPerMinute )
       /\ Includes(ret.guardrails, "daily_limit")
          => /\ ret.at - ProbedWindow.lastDayReset = DayMs
                => /\ windows[ret.walletId].lastDayReset = ProbedWindow.lastDayReset
                   /\ windows[ret.walletId].dailySpend = ProbedWindow.dailySpend
             /\ windows[ret.walletId].dailySpend + ret.amountSol
                   = config.dailySpendingLimitSol
                => ~ DeniedBy("daily_limit")

(* An amount equal to the cap, which brings the daily spend exactly to the
   daily limit, on an account whose only timestamp is exactly 60s old and
   whose rate limit is one a minute: allowed. *)
C37_Witness ==
    /\ Probed
    /\ ret.allowed
    /\ ret.amountSol = config.maxSolPerTransaction
    /\ ProbedWindow.dailySpend > 0
    /\ ProbedWindow.dailySpend + ret.amountSol = config.dailySpendingLimitSol
    /\ ProbedAtMinute # {}
    /\ Len(ProbedWindow.timestamps) = config.maxTransactionsPerMinute

(* A window start exactly 24h old with a spend that, had it been reset,
   would have let the amount pass: not reset, denied by the daily rule. *)
C37_DayBoundaryReached ==
    /\ Probed
    /\ ret.at - ProbedWindow.lastDayReset = DayMs
    /\ ProbedWindow.dailySpend > 0
    /\ DeniedBy("daily_limit")
    /\ ret.amountSol <= config.dailySpendingLimitSol

(* ---------------------------------------------------------------- *)
(* Token transfers and native transfers on one account               *)
(* ---------------------------------------------------------------- *)
TokenAmounts == { 5, 1000 }

NextToken ==
    \/ \E a \in Attempts, amount \in TokenAmounts :
          NoAttemptInFlightOn("w1") /\ TransferToken(a, "w1", GoodAddress, amount, NoFaults)
    \/ \E a \in Attempts, amt \in EngineAmounts :
          NoAttemptInFlightOn("w1") /\ TransferSol(a, "w1", GoodAddress, amt, NoFaults)
    \/ \E a \in Attempts : Resolve(a, "ok", NoFaults)
    \/ \E a \in Attempts, c \in BOOLEAN : Send(a, c, NoFaults)
    \/ Tick(MinuteMs)

SpecToken == Init /\ [][NextToken]_vars

Enters(a) == att[a].pc = "idle" /\ att'[a].pc # "idle"
WindowOf(walletId) ==
    IF walletId \in DOMAIN windows THEN windows[walletId] ELSE NewWindow(now)

(* C38: a token transfer is validated with amount 0: the per-transaction
   rule never denies it, and the daily rule denies it only when the account
   is over its daily limit already, whatever the token amount.  When it is
   confirmed the account's dailySpend is left as it is and one timestamp is
   added, and every transfer on the account, native or token, is denied by
   the rate rule exactly when the timestamps of the last minute, of either
   kind, have reached maxTransactionsPerMinute. *)
C38_TokenTransferSpendsNothing ==
    [][ \A a \in Attempts :
          LET w == att'[a].record.walletId
              denied(rule) == /\ att'[a].record.status = "blocked"
                              /\ Last(att'[a].record.guardrailsApplied) = rule
          IN  /\ (Enters(a) /\ att'[a].kind = "transferToken")
                 => /\ att'[a].amountSol = 0
                    /\ att'[a].record.details[2] \in TokenAmounts
                    /\ ~ denied("max_per_tx")
                    /\ denied("daily_limit")
                       => ResetDailyIfNeeded(WindowOf(w), now).dailySpend
                             > config.dailySpendingLimitSol
              /\ (Enters(a) /\ att'[a].amountSol <= config.maxSolPerTransaction)
                 => ( denied("rate_limit")
                        <=> RecentTxCount(WindowOf(w), now)
                               >= config.maxTransactionsPerMinute )
              /\ ( /\ att[a].pc = "send"
                   /\ att[a].kind = "transferToken"
                   /\ att'[a].record.status = "confirmed" )
                 => /\ windows'[w].dailySpend = WindowOf(w).dailySpend
                    /\ Last(windows'[w].timestamps) = now
                    /\ RecentTxCount(windows'[w], now)
                          = RecentTxCount(WindowOf(w), now) + 1 ]_vars

(* A native transfer within every spending limit is denied by the rate rule
   after one confirmed transfer of 1000 tokens, which left the daily spend
   at 0. *)
C38_Witness ==
    \E a, b \in Attempts :
       /\ att[a].kind = "transferToken"
       /\ att[a].record.details[2] = 1000
       /\ att[a].record.status = "confirmed"
       /\ att[a].recorded > 0
       /\ att[b].kind = "transferSol"
       /\ BlockedBy(b, "rate_limit")
       /\ windows["w1"].dailySpend = 0
       /\ Len(windows["w1"].timestamps) = 1

-----------------------------------------------------------------------------
(* The registry of the Orchestrator: createAgent with every shape of wallet
   options, the agents then started, paused and stopped, their loops
   running. *)

(* CreateAgentOptions.mnemonic and .derivationIndex: neither, both (two
   indices under one mnemonic), and the mnemonic alone *)
WalletOptions ==
    { << >>,
      [ mnemonic |-> "seed", derivationIndex |-> 0 ],
      [ mnemonic |-> "seed", derivationIndex |-> 1 ],
      [ mnemonic |-> "seed" ] }

NextRegistry ==
    \/ \E ag \in AgentIds, o \in WalletOptions : NextAgentId(ag) /\ CreateAgent(ag, o)
    \/ \E op \in OrchestratorOps, ag \in AgentIds :
          ag \in DOMAIN agents /\ RoomForStopAll /\ OrchestratorCall(op, ag)
    \/ \E ag \in AgentIds : \E h \in 1..MaxCycles : TimerFires(ag, h)
    \/ \E ag \in AgentIds, n \in 1..MaxCycles : Observe(ag, n, "ok")
    \/ \E ag \in AgentIds, n \in 1..MaxCycles : Think(ag, n, Response("hold", << >>), "none")

SpecRegistry == InitOrchestrator /\ [][NextRegistry]_vars

(* the two maps hold the same ids, each config under its own id, each
   runtime holding the config stored under its id *)
SameKeySet ==
    /\ DOMAIN agents = DOMAIN configs
    /\ \A ag \in DOMAIN configs : configs[ag].id = ag /\ agents[ag].config = ag

NoCycleYet(ag) ==
    /\ agents[ag].cycle = 0
    /\ agents[ag].inflight = {}
    /\ agents[ag].timers = {}
    /\ agents[ag].decisions = << >>
    /\ ~agents[ag].running

(* idle and untouched while no lifecycle call was made, and no cycle at all
   before the first start *)
IdleUntilStarted ==
    \A ag \in DOMAIN agents :
       /\ agents[ag].lifecycle = << >> => configs[ag].status = "idle"
       /\ (\A i \in 1..Len(agents[ag].lifecycle) : agents[ag].lifecycle[i] # "start")
          => NoCycleYet(ag)

(* C39: after any sequence of createAgent calls the runtime map and the
   config map have the same key set, the agent ids are distinct, every agent
   has a wallet id of its own and no two agents share an account (the
   address the wallet signs for), and a newly created agent is idle with no
   cycle executed until startAgent is called. *)
C39_RegistryInvariant ==
    /\ SameKeySet
    /\ \A a, b \in DOMAIN configs :
          a # b => /\ configs[a].walletId # configs[b].walletId
                   /\ configs[a].publicKey # configs[b].publicKey
    /\ IdleUntilStarted

(* What holds of the registry: same key set, wallet ids of their own, idle
   until started; and two agents hold the same key exactly when both were
   created with the same mnemonic and derivation index. *)
C39_RegistryByWalletId ==
    /\ SameKeySet
    /\ \A a, b \in DOMAIN configs :
          a # b => /\ configs[a].walletId # configs[b].walletId
                   /\ configs[a].publicKey = configs[b].publicKey
                      => configs[a].publicKey.from = "mnemonic"
    /\ IdleUntilStarted

(* two agents, two wallet ids, one derived key: both signing for the same
   address, each under a spending window of its own *)
C39_TwoAgentsOneAccount ==
    /\ DOMAIN configs = AgentIds
    /\ configs["agent-1"].walletId # configs["agent-2"].walletId
    /\ configs["agent-1"].publicKey = DerivedKey("seed", 0)
    /\ configs["agent-2"].publicKey = DerivedKey("seed", 0)
    /\ configs["agent-1"].status = "running"
    /\ configs["agent-2"].status = "idle"
    /\ agents["agent-1"].decisions # << >>

====
